---- MODULE Spec2Model ----
(***************************************************************************)
(* Model of the agent tooling scripts:                                     *)
(*   scripts/audit_agent.py        AgentAuditor                            *)
(*   scripts/validate_agent.py     AgentValidator                          *)
(*   scripts/consistency_check.py  SkillConsistencyChecker                 *)
(*                                                                         *)
(* Scores are kept in tenths (5.0 is 50, a deduction of 0.3 is 3) and the  *)
(* overall score in hundredths, so that all arithmetic is on integers.     *)
(***************************************************************************)
EXTENDS Integers, Sequences, FiniteSets, TLC

VARIABLES
    input,            \* what the run was started on (a document, a tree, arguments)
    pc,               \* position of the run
    scores,           \* AgentAuditor.scores: category -> score in tenths
    findings,         \* AgentAuditor.findings
    recommendations,  \* AgentAuditor.recommendations
    errors,           \* AgentValidator.errors
    warnings,         \* AgentValidator.warnings
    info,             \* AgentValidator.info
    issues,           \* ConsistencyReport.issues
    result            \* what the entry point returned (NoResult while running)

vars == <<input, pc, scores, findings, recommendations, errors, warnings, info,
          issues, result>>

(***************************************************************************)
(* Python values, as yaml.safe_load produces them.  Every value is a       *)
(* record of the same shape: t is the type, s the text of a string, n the  *)
(* number (an int, a bool as 0/1, the length of a string or list), w the   *)
(* set of lower-cased substrings of interest a string contains, m the      *)
(* key -> value mapping of a dict.                                         *)
(***************************************************************************)
NoneV == [t |-> "none", s |-> "", n |-> 0, w |-> {}, m |-> <<>>]
BoolV(b) == [t |-> "bool", s |-> "", n |-> IF b THEN 1 ELSE 0, w |-> {}, m |-> <<>>]
IntV(i) == [t |-> "int", s |-> "", n |-> i, w |-> {}, m |-> <<>>]
StrV(str, len, marks) == [t |-> "str", s |-> str, n |-> len, w |-> marks, m |-> <<>>]
ListV(len) == [t |-> "list", s |-> "", n |-> len, w |-> {}, m |-> <<>>]
DictV(f) == [t |-> "dict", s |-> "", n |-> 0, w |-> {}, m |-> f]

Word(str) == StrV(str, 1, {})
EmptyDict == DictV(<<>>)
EmptyStr == StrV("", 0, {})

\* bool(v)
Truthy(v) ==
    CASE v.t = "none" -> FALSE
      [] v.t = "bool" -> v.n = 1
      [] v.t = "int" -> v.n # 0
      [] v.t = "str" -> v.n > 0
      [] v.t = "list" -> v.n > 0
      [] v.t = "dict" -> DOMAIN v.m # {}

IsDict(v) == v.t = "dict"
IsStr(v) == v.t = "str"
\* v is True
IsTrue(v) == v.t = "bool" /\ v.n = 1
\* v == 'text'
EqStr(v, str) == v.t = "str" /\ v.s = str
\* hash(v) is defined: lists and dicts cannot be looked up in a set
Hashable(v) == v.t \notin {"list", "dict"}
\* len(v) is defined
HasLen(v) == v.t \in {"str", "list", "dict"}
\* d.get(k, default) for a dict d
Get(d, k, default) == IF k \in DOMAIN d.m THEN d.m[k] ELSE default
\* 'text' in v, for a v that supports the test
Contains(v, str) ==
    CASE v.t = "str" -> str \in v.w
      [] v.t = "dict" -> str \in DOMAIN v.m
      [] OTHER -> FALSE

Max(a, b) == IF a >= b THEN a ELSE b

RECURSIVE SumSeq(_)
SumSeq(q) == IF q = <<>> THEN 0 ELSE Head(q) + SumSeq(Tail(q))

RECURSIVE CountIn(_, _)
\* number of entries of the sequence of keywords kws that are in the set ws
CountIn(kws, ws) ==
    IF kws = <<>> THEN 0
    ELSE (IF Head(kws) \in ws THEN 1 ELSE 0) + CountIn(Tail(kws), ws)

Range(q) == {q[i] : i \in DOMAIN q}

(***************************************************************************)
(* Documents.  A document is what the file holds: whether the file exists, *)
(* whether its text matches the frontmatter pattern, whether the block      *)
(* parses as YAML, the parsed value, and the body.  A body is a string; of *)
(* it the rules read the keywords it contains (lower-cased), the number of *)
(* "## " heading lines, the number of ``` fences, the number of lines, and *)
(* whether it has any other non-blank text.                                *)
(***************************************************************************)
Body(ws, h, f, l, txt) == [words |-> ws, h2 |-> h, fences |-> f, nlines |-> l, text |-> txt]

\* not body or not body.strip()
BodyBlank(b) == b.words = {} /\ b.h2 = 0 /\ b.fences = 0 /\ ~b.text

Doc(ex, delim, yamlok, fm, b) ==
    [exists |-> ex, delimited |-> delim, yaml_ok |-> yamlok, fm |-> fm, body |-> b]

(***************************************************************************)
(* Program constants of audit_agent.py (scores and deductions in tenths).  *)
(***************************************************************************)
FullScore == 50
DescMinLen == 50
KitchenSinkCount == 9
MinSections == 3
MinFences == 4
MinBodyLines == 50
MinSafetyCount == 3
MinDenyPatterns == 2

ValidModes == {"primary", "subagent", "all"}
TriggerKeywords == {"use when", "use for", "invoke when", "use proactively"}
SafetyKeywords == <<"safety", "confirm", "always", "never", "backup", "verify", "check">>
DocChecks == <<
    [kw |-> "overview", what |-> "Overview or introduction"],
    [kw |-> "responsibilit", what |-> "Core responsibilities"],
    [kw |-> "example", what |-> "Usage examples"],
    [kw |-> "error", what |-> "Error handling"] >>

Categories ==
    {"frontmatter_quality", "tool_safety", "instruction_quality", "security",
     "documentation"}

(***************************************************************************)
(* A rule walks its checks in order.  Each check that fires subtracts its  *)
(* amount and appends one finding and one recommendation.  A rule either   *)
(* completes, or raises (an AttributeError or TypeError that nothing in    *)
(* audit() catches) after the checks that fired before the fault.          *)
(***************************************************************************)
Ded(amount, finding, arg, rec) == [d |-> amount, f |-> <<finding, arg>>, r |-> rec]
When(cond, ded) == IF cond THEN <<ded>> ELSE <<>>
Ok(fired) == [raised |-> FALSE, fired |-> fired]
Raise(fired) == [raised |-> TRUE, fired |-> fired]

\* how a value reads inside an f-string, as far as the model tells values apart
Repr(v) == IF v.t = "str" THEN v.s ELSE v.t

\* len(v), for a v that has one
PyLen(v) == IF v.t = "dict" THEN Cardinality(DOMAIN v.m) ELSE v.n

\* score = 5.0; score -= ...; max(0, score)
ScoreOf(fired) == Max(0, FullScore - SumSeq([i \in DOMAIN fired |-> fired[i].d]))
FindingsOf(fired) == [i \in DOMAIN fired |-> fired[i].f]
\* a faulty rule body that appends one recommendation for the whole rule
\* instead of one with each finding; C17 tells it from the code's
RecommendationsOfRule(fired) == IF fired = <<>> THEN <<>> ELSE <<fired[1].r>>
RecommendationsOf(fired) == [i \in DOMAIN fired |-> fired[i].r]

\* _audit_frontmatter_quality, the description part
DescriptionChecks(desc) ==
    IF ~Truthy(desc)
    THEN Ok(<<Ded(20, "Missing description", "",
                  "Add a description with triggers and examples")>>)
    ELSE IF ~HasLen(desc) THEN Raise(<<>>)
    ELSE LET short == When(PyLen(desc) < DescMinLen,
                 Ded(5, "Description is too short", "",
                     "Add more detail to description including trigger conditions"))
             noex == When(~Contains(desc, "<example>"),
                 Ded(5, "Description missing <example> blocks", "",
                     "Add <example> blocks showing typical usage"))
             notrig == When(desc.w \cap TriggerKeywords = {},
                 Ded(3, "Description missing trigger keywords", "",
                     "Add 'Use when...' to clarify when to invoke agent"))
         IN  IF ~IsStr(desc) THEN Raise(short \o noex)   \* desc.lower()
             ELSE Ok(short \o noex \o notrig)

\* _audit_frontmatter_quality, the mode part
ModeChecks(mode) ==
    IF ~Truthy(mode) THEN Ok(<<>>)
    ELSE IF ~Hashable(mode) THEN Raise(<<>>)             \* mode not in {...}
    ELSE Ok(When(~(IsStr(mode) /\ mode.s \in ValidModes),
                 Ded(5, "Invalid mode: ", Repr(mode),
                     "Mode must be 'primary', 'subagent', or 'all'")))

FrontmatterQualityRule(frontmatter) ==
    IF ~IsDict(frontmatter) THEN Raise(<<>>)             \* frontmatter.get
    ELSE LET dp == DescriptionChecks(Get(frontmatter, "description", EmptyStr))
         IN  IF dp.raised THEN dp
             ELSE LET mp == ModeChecks(Get(frontmatter, "mode", NoneV))
                  IN  [raised |-> mp.raised, fired |-> dp.fired \o mp.fired]

\* any(v == 'deny' for v in bash_perms.values())
HasDeny(bash_perms) == \E p \in DOMAIN bash_perms.m : EqStr(bash_perms.m[p], "deny")

\* tools.get(name) is truthy
ToolOn(tools, name) == Truthy(Get(tools, name, NoneV))

EnabledCount(tools) == Cardinality({k \in DOMAIN tools.m : IsTrue(tools.m[k])})

\* a faulty bash part that holds a bash permission given as a single level
\* against the missing deny and default rules, like a mapping without them;
\* C18 tells it from the code's
BashPermissionChecksAnyShape(permission) ==
    IF ~Truthy(Get(permission, "bash", NoneV))
    THEN <<Ded(15, "bash enabled but no permission patterns defined", "",
               "Add permission patterns for bash commands")>>
    ELSE LET bash_perms == Get(permission, "bash", EmptyDict)
         IN  When(~(IsDict(bash_perms) /\ HasDeny(bash_perms)),
                  Ded(5, "No deny rules for dangerous bash commands", "",
                      "Add deny rules for rm -rf, dd, mkfs, etc."))
          \o When(~(IsDict(bash_perms) /\ "*" \in DOMAIN bash_perms.m),
                  Ded(3, "No default (*) bash permission rule", "",
                      "Add '*': ask as default bash permission"))

\* _audit_tool_safety, the bash part
BashPermissionChecks(permission) ==
    IF ~Truthy(Get(permission, "bash", NoneV))
    THEN <<Ded(15, "bash enabled but no permission patterns defined", "",
               "Add permission patterns for bash commands")>>
    ELSE LET bash_perms == Get(permission, "bash", EmptyDict)
         IN  IF ~IsDict(bash_perms) THEN <<>>
             ELSE When(~HasDeny(bash_perms),
                       Ded(5, "No deny rules for dangerous bash commands", "",
                           "Add deny rules for rm -rf, dd, mkfs, etc."))
               \o When("*" \notin DOMAIN bash_perms.m,
                       Ded(3, "No default (*) bash permission rule", "",
                           "Add '*': ask as default bash permission"))

ToolSafetyRule(tools, permission) ==
    IF ~IsDict(tools) THEN Raise(<<>>)                   \* tools.items()
    ELSE LET many == When(EnabledCount(tools) >= KitchenSinkCount,
                 Ded(10, "Many tools enabled", ToString(EnabledCount(tools)),
                     "Review if all tools are necessary - apply least privilege"))
         IN  IF ToolOn(tools, "bash") /\ ~IsDict(permission)
             THEN Raise(many)                            \* permission.get
             ELSE Ok(many
                  \o (IF ToolOn(tools, "bash") THEN BashPermissionChecks(permission)
                      ELSE <<>>)
                  \o When(ToolOn(tools, "write") /\ ~ToolOn(tools, "read"),
                          Ded(5, "write enabled without read", "",
                              "Add read tool (agent should read before writing)"))
                  \o When(ToolOn(tools, "edit") /\ ~ToolOn(tools, "read"),
                          Ded(5, "edit enabled without read", "",
                              "Add read tool (agent must read before editing)")))

InstructionQualityRule(body) ==
    Ok(  When(body.h2 < MinSections,
              Ded(10, "Few sections in instructions", "",
                  "Organize instructions with clear ## headings"))
      \o When(body.fences < MinFences,
              Ded(5, "Few code examples", "", "Add more code/command examples"))
      \o When("workflow" \notin body.words,
              Ded(5, "No workflow section found", "",
                  "Add a Workflow section with step-by-step process"))
      \o When("responsibilit" \notin body.words,
              Ded(3, "No responsibilities section found", "",
                  "Add Core Responsibilities section"))
      \o When(body.nlines < MinBodyLines,
              Ded(5, "Instructions are quite short", "",
                  "Add more comprehensive guidance and examples")))

\* a faulty bash part of _audit_security that deducts 0.5 for few safety
\* keywords; C4 tells it from the code's
BashSecurityChecksLenient(permission, body) ==
    LET few == When(CountIn(SafetyKeywords, body.words) < MinSafetyCount,
                 Ded(5, "bash enabled but few safety keywords in instructions", "",
                     "Add safety protocols: confirmation prompts, backup procedures"))
    IN  IF ~IsDict(permission) THEN Raise(few)
        ELSE LET bash_perms == Get(permission, "bash", EmptyDict)
                 deny_patterns ==
                     IF IsDict(bash_perms)
                     THEN {p \in DOMAIN bash_perms.m : EqStr(bash_perms.m[p], "deny")}
                     ELSE {}
             IN  Ok(few \o When(IsDict(bash_perms)
                                  /\ Cardinality(deny_patterns) < MinDenyPatterns,
                                Ded(5, "Few deny patterns for bash", "",
                                    "Add more deny patterns for dangerous commands")))

\* _audit_security, the bash part
BashSecurityChecks(permission, body) ==
    LET few == When(CountIn(SafetyKeywords, body.words) < MinSafetyCount,
                 Ded(15, "bash enabled but few safety keywords in instructions", "",
                     "Add safety protocols: confirmation prompts, backup procedures"))
    IN  IF ~IsDict(permission) THEN Raise(few)           \* permission.get
        ELSE LET bash_perms == Get(permission, "bash", EmptyDict)
                 deny_patterns ==
                     IF IsDict(bash_perms)
                     THEN {p \in DOMAIN bash_perms.m : EqStr(bash_perms.m[p], "deny")}
                     ELSE {}
             IN  Ok(few \o When(IsDict(bash_perms)
                                  /\ Cardinality(deny_patterns) < MinDenyPatterns,
                                Ded(5, "Few deny patterns for bash", "",
                                    "Add more deny patterns for dangerous commands")))

\* a faulty _audit_security that asks for guidance on sensitive data only
\* when read is enabled; C19 tells it from the code's
SecurityRuleSecretsOnRead(frontmatter, body) ==
    IF ~IsDict(frontmatter) THEN Raise(<<>>)
    ELSE LET tools == Get(frontmatter, "tools", EmptyDict)
             permission == Get(frontmatter, "permission", EmptyDict)
         IN  IF ~IsDict(tools) THEN Raise(<<>>)
             ELSE LET bp == IF ToolOn(tools, "bash")
                            THEN BashSecurityChecks(permission, body)
                            ELSE Ok(<<>>)
                  IN  IF bp.raised THEN bp
                      ELSE Ok(bp.fired
                         \o When(ToolOn(tools, "write")
                                   /\ "overwrite" \notin body.words
                                   /\ "exist" \notin body.words,
                                 Ded(5, "write enabled but no overwrite safety mentioned", "",
                                     "Add guidance on checking file existence before writing"))
                         \o When(ToolOn(tools, "read")
                                   /\ "secret" \notin body.words
                                   /\ "password" \notin body.words
                                   /\ "credential" \notin body.words,
                                 Ded(3, "No guidance on handling sensitive data", "",
                                     "Add guidelines for handling secrets and credentials")))

SecurityRule(frontmatter, body) ==
    IF ~IsDict(frontmatter) THEN Raise(<<>>)             \* frontmatter.get
    ELSE LET tools == Get(frontmatter, "tools", EmptyDict)
             permission == Get(frontmatter, "permission", EmptyDict)
         IN  IF ~IsDict(tools) THEN Raise(<<>>)          \* tools.get
             ELSE LET bp == IF ToolOn(tools, "bash")
                            THEN BashSecurityChecks(permission, body)
                            ELSE Ok(<<>>)
                  IN  IF bp.raised THEN bp
                      ELSE Ok(bp.fired
                         \o When(ToolOn(tools, "write")
                                   /\ "overwrite" \notin body.words
                                   /\ "exist" \notin body.words,
                                 Ded(5, "write enabled but no overwrite safety mentioned", "",
                                     "Add guidance on checking file existence before writing"))
                         \o When((ToolOn(tools, "read") \/ ToolOn(tools, "bash"))
                                   /\ "secret" \notin body.words
                                   /\ "password" \notin body.words
                                   /\ "credential" \notin body.words,
                                 Ded(3, "No guidance on handling sensitive data", "",
                                     "Add guidelines for handling secrets and credentials")))

RECURSIVE DocCheckLoop(_, _)
DocCheckLoop(checks, body) ==
    IF checks = <<>> THEN <<>>
    ELSE When(Head(checks).kw \notin body.words,
              Ded(5, "Missing ", Head(checks).what, Head(checks).what))
         \o DocCheckLoop(Tail(checks), body)

DocumentationRule(body) ==
    Ok(  DocCheckLoop(DocChecks, body)
      \o When("limitation" \notin body.words /\ "cannot" \notin body.words,
              Ded(3, "Limitations not clearly stated", "",
                  "Document what agent CANNOT do")))

\* a faulty _assess_risk_level that takes a deny entry alone for MEDIUM; C2
\* tells it from the code's
AssessRiskLevelDenyOnly(tools, permission) ==
    IF ~IsDict(tools) THEN [raised |-> TRUE, level |-> ""]
    ELSE IF ToolOn(tools, "bash")
    THEN IF ~IsDict(permission) THEN [raised |-> TRUE, level |-> ""]
         ELSE LET bash_perms == Get(permission, "bash", EmptyDict)
              IN  [raised |-> FALSE,
                   level |-> IF IsDict(bash_perms) /\ HasDeny(bash_perms)
                             THEN "MEDIUM" ELSE "HIGH"]
    ELSE IF ToolOn(tools, "write") \/ ToolOn(tools, "edit")
    THEN [raised |-> FALSE, level |-> "MEDIUM"]
    ELSE [raised |-> FALSE, level |-> "LOW"]

\* a faulty _assess_risk_level without the write/edit tier; C3 tells it from
\* the code's
AssessRiskLevelBashOnly(tools, permission) ==
    IF ~IsDict(tools) THEN [raised |-> TRUE, level |-> ""]
    ELSE IF ToolOn(tools, "bash")
    THEN IF ~IsDict(permission) THEN [raised |-> TRUE, level |-> ""]
         ELSE LET bash_perms == Get(permission, "bash", EmptyDict)
              IN  [raised |-> FALSE,
                   level |-> IF /\ IsDict(bash_perms)
                                /\ HasDeny(bash_perms)
                                /\ EqStr(Get(bash_perms, "*", NoneV), "ask")
                             THEN "MEDIUM" ELSE "HIGH"]
    ELSE [raised |-> FALSE, level |-> "LOW"]

\* a faulty _assess_risk_level that takes a bash permission given as the
\* single level deny for MEDIUM; C23 tells it from the code's
AssessRiskLevelScalarDeny(tools, permission) ==
    IF ~IsDict(tools) THEN [raised |-> TRUE, level |-> ""]
    ELSE IF ToolOn(tools, "bash")
    THEN IF ~IsDict(permission) THEN [raised |-> TRUE, level |-> ""]
         ELSE LET bash_perms == Get(permission, "bash", EmptyDict)
              IN  IF IsDict(bash_perms)
                  THEN LET has_deny == HasDeny(bash_perms)
                           has_ask_default == EqStr(Get(bash_perms, "*", NoneV), "ask")
                       IN  [raised |-> FALSE,
                            level |-> IF has_deny /\ has_ask_default
                                      THEN "MEDIUM" ELSE "HIGH"]
                  ELSE [raised |-> FALSE,
                        level |-> IF EqStr(bash_perms, "deny") THEN "MEDIUM" ELSE "HIGH"]
    ELSE IF ToolOn(tools, "write") \/ ToolOn(tools, "edit")
    THEN [raised |-> FALSE, level |-> "MEDIUM"]
    ELSE [raised |-> FALSE, level |-> "LOW"]

\* _assess_risk_level: the tier, or a fault
AssessRiskLevel(tools, permission) ==
    IF ~IsDict(tools) THEN [raised |-> TRUE, level |-> ""]
    ELSE IF ToolOn(tools, "bash")
    THEN IF ~IsDict(permission) THEN [raised |-> TRUE, level |-> ""]
         ELSE LET bash_perms == Get(permission, "bash", EmptyDict)
              IN  IF IsDict(bash_perms)
                  THEN LET has_deny == HasDeny(bash_perms)
                           has_ask_default == EqStr(Get(bash_perms, "*", NoneV), "ask")
                       IN  [raised |-> FALSE,
                            level |-> IF has_deny /\ has_ask_default
                                      THEN "MEDIUM" ELSE "HIGH"]
                  ELSE [raised |-> FALSE, level |-> "HIGH"]
    ELSE IF ToolOn(tools, "write") \/ ToolOn(tools, "edit")
    THEN [raised |-> FALSE, level |-> "MEDIUM"]
    ELSE [raised |-> FALSE, level |-> "LOW"]

\* round(num / den, 2) in hundredths, for num in tenths: nearest, ties to even
RoundHundredths(num, den) ==
    LET scaled == 10 * num
        q == scaled \div den
        r == scaled % den
    IN  IF 2 * r > den THEN q + 1
        ELSE IF 2 * r < den THEN q
        ELSE IF q % 2 = 0 THEN q ELSE q + 1

RECURSIVE SumOver(_, _)
SumOver(f, S) ==
    IF S = {} THEN 0
    ELSE LET k == CHOOSE x \in S : TRUE IN f[k] + SumOver(f, S \ {k})

\* a faulty _calculate_overall_score that divides the sum by four; C1 tells it
\* from the code's
OverallScoreOverFour(sc) ==
    IF DOMAIN sc = {} THEN 0 ELSE RoundHundredths(SumOver(sc, DOMAIN sc), 4)

\* _calculate_overall_score, in hundredths
CalculateOverallScore(sc) ==
    IF DOMAIN sc = {} THEN 0
    ELSE RoundHundredths(SumOver(sc, DOMAIN sc), Cardinality(DOMAIN sc))

\* _extract_frontmatter: the parsed block (NoneV when there is none) and the body
ExtractFrontmatter(doc) ==
    IF ~doc.delimited THEN NoneV
    ELSE IF ~doc.yaml_ok THEN NoneV
    ELSE doc.fm

NoResult == [kind |-> "none"]

RECURSIVE RunRules(_, _)
\* the rule calls of audit(), in order; a fault in one ends the run
RunRules(calls, acc) ==
    IF calls = <<>> THEN acc
    ELSE LET c == Head(calls)
             next == [raised |-> c.out.raised,
                      scores |-> IF c.out.raised THEN acc.scores
                                 ELSE (c.cat :> ScoreOf(c.out.fired)) @@ acc.scores,
                      findings |-> acc.findings \o FindingsOf(c.out.fired),
                      recommendations |->
                          acc.recommendations \o RecommendationsOf(c.out.fired)]
         IN  IF c.out.raised THEN next ELSE RunRules(Tail(calls), next)

\* the five calls of audit(), lines 35-39, on an extracted frontmatter
RuleCalls(frontmatter, body) ==
    << [cat |-> "frontmatter_quality", out |-> FrontmatterQualityRule(frontmatter)],
       [cat |-> "tool_safety",
        out |-> IF IsDict(frontmatter)
                THEN ToolSafetyRule(Get(frontmatter, "tools", EmptyDict),
                                    Get(frontmatter, "permission", EmptyDict))
                ELSE Raise(<<>>)],
       [cat |-> "instruction_quality", out |-> InstructionQualityRule(body)],
       [cat |-> "security", out |-> SecurityRule(frontmatter, body)],
       [cat |-> "documentation", out |-> DocumentationRule(body)] >>

Fresh == [raised |-> FALSE, scores |-> <<>>, findings |-> <<>>, recommendations |-> <<>>]

ErrorResult(msg) == [kind |-> "error", error |-> msg]

\* audit(): the auditor's fields afterwards, and what it returned (NoResult on a fault)
AuditRun(doc) ==
    IF ~doc.exists
    THEN [after |-> Fresh, result |-> ErrorResult("File not found")]
    ELSE LET frontmatter == ExtractFrontmatter(doc)
         IN  IF frontmatter = NoneV
             THEN [after |-> Fresh, result |-> ErrorResult("No valid frontmatter found")]
             ELSE LET after == RunRules(RuleCalls(frontmatter, doc.body), Fresh)
                      risk == AssessRiskLevel(Get(frontmatter, "tools", EmptyDict),
                                              Get(frontmatter, "permission", EmptyDict))
                  IN  IF after.raised \/ risk.raised
                      THEN [after |-> after, result |-> NoResult]
                      ELSE [after |-> after,
                            result |-> [kind |-> "audit",
                                        overall_score |-> CalculateOverallScore(after.scores),
                                        scores |-> after.scores,
                                        findings |-> after.findings,
                                        recommendations |-> after.recommendations,
                                        risk_level |-> risk.level]]

\* main() of audit_agent.py: the process exit code for a returned result
AuditExitCode(res) == IF res.kind = "error" THEN 1 ELSE 0

(***************************************************************************)
(* Inputs of the audit runs.                                               *)
(***************************************************************************)
Absent == [t |-> "absent", s |-> "", n |-> 0, w |-> {}, m |-> <<>>]

\* a frontmatter mapping with the given values under the keys that are present
Frontmatter(description, mode, tools, permission) ==
    LET all == [description |-> description, mode |-> mode, tools |-> tools,
                permission |-> permission]
    IN  DictV([k \in {x \in DOMAIN all : all[x] # Absent} |-> all[k]])

CoreTools == {"bash", "read", "write", "edit"}
OtherTools == {"glob", "grep", "task", "skill", "webfetch", "todoread", "todowrite"}

\* a tools mapping with the tools of on set to true and those of off set to false
ToolMap(on, off) == DictV([k \in on \cup off |-> BoolV(k \in on)])

\* the first k safety keywords
SafetyPrefix(k) == {SafetyKeywords[i] : i \in 1..k}

AllKeywords ==
    Range(SafetyKeywords) \cup
    {"overwrite", "exist", "secret", "password", "credential", "workflow",
     "responsibilit", "overview", "example", "error", "limitation", "cannot"}

MaxSafetyWords == 3
MaxPatterns == 3

BashPatterns == <<"*", "rm -rf *", "dd *", "mkfs *">>
Levels == {Word("allow"), Word("ask"), Word("deny")}

\* every mapping from some of the first MaxPatterns patterns to a level
PatternMaps ==
    UNION {[S -> Levels] : S \in SUBSET {BashPatterns[i] : i \in 1..MaxPatterns}}

ShortDescription == StrV("Helper", 6, {})
GoodDescription == StrV("Use when reviewing <example>..</example>", 120, {"<example>", "use when"})

AuditDescriptions == {Absent, ShortDescription, GoodDescription, IntV(5), ListV(1)}
AuditModes == {Absent, StrV("primary", 7, {}), StrV("turbo", 5, {}), ListV(1)}
AuditTools ==
    {Absent, NoneV, ListV(1), ToolMap(CoreTools \cup OtherTools, {}),
     ToolMap({"write"}, {"read"})}
    \cup {ToolMap(on, {}) : on \in SUBSET {"bash", "read", "write"}}
\* a bash permission mapping with ask under the patterns of asks, deny under those
\* of denies
BashPermission(asks, denies) ==
    DictV([k \in {"bash"} |->
              DictV([p \in asks \cup denies |->
                        IF p \in asks THEN Word("ask") ELSE Word("deny")])])

AuditPermissions ==
    {Absent, NoneV, DictV([k \in {"bash"} |-> Word("deny")]),
     DictV([k \in {"bash"} |-> DictV([p \in {"rm -rf *"} |-> Word("allow")])]),
     BashPermission({"*"}, {}),
     BashPermission({"*"}, {"rm -rf *"}),
     BashPermission({"*"}, {"rm -rf *", "dd *"}),
     BashPermission({}, {"rm -rf *", "dd *"})}
AuditBodies ==
    {Body(ws, shape[1], shape[2], shape[3], TRUE) :
        ws \in {{}, SafetyPrefix(MaxSafetyWords), AllKeywords},
        shape \in {<<0, 0, 1>>, <<MinSections, MinFences, MinBodyLines>>}}

NoBody == Body({}, 0, 0, 1, FALSE)

Idle ==
    /\ scores = <<>> /\ findings = <<>> /\ recommendations = <<>>
    /\ errors = <<>> /\ warnings = <<>> /\ info = <<>>
    /\ issues = <<>> /\ result = NoResult

AuditInput(d) == [fn |-> "audit", doc |-> d]

InitAudit ==
    /\ \/ input = AuditInput(Doc(FALSE, FALSE, FALSE, NoneV, NoBody))
       \/ \E delim \in BOOLEAN, b \in AuditBodies :
            input = AuditInput(Doc(TRUE, delim, FALSE, NoneV, b))
       \/ \E fm \in {NoneV, StrV("just text", 9, {}), ListV(2)}, b \in AuditBodies :
            input = AuditInput(Doc(TRUE, TRUE, TRUE, fm, b))
       \/ \E d \in AuditDescriptions, mo \in AuditModes, t \in AuditTools,
             p \in AuditPermissions, b \in AuditBodies :
            input = AuditInput(Doc(TRUE, TRUE, TRUE, Frontmatter(d, mo, t, p), b))
    /\ pc = "start"
    /\ Idle

\* what a run of audit_agent.py on the input document leaves
AuditEffect ==
    /\ \E run \in {AuditRun(input.doc)} :
           /\ scores' = run.after.scores
           /\ findings' = run.after.findings
           /\ recommendations' = run.after.recommendations
           /\ result' = run.result
           /\ pc' = IF run.result = NoResult THEN "raised" ELSE "done"
    /\ UNCHANGED <<input, errors, warnings, info, issues>>

\* AgentAuditor(path).audit()
Audit ==
    /\ pc = "start" /\ input.fn = "audit"
    /\ AuditEffect

NextAudit == Audit

SpecAudit == InitAudit /\ [][NextAudit]_vars

(***************************************************************************)
(* The rules and the risk assessment on their own: each is applied to      *)
(* arguments drawn from bounded sets.  A run of SpecRules calls one of     *)
(* them, input.fn, on a fresh auditor.                                     *)
(***************************************************************************)
RuleDescriptions == AuditDescriptions \cup {NoneV, EmptyStr, BoolV(TRUE), EmptyDict}
RuleModes == AuditModes \cup {NoneV, BoolV(TRUE), IntV(3), StrV("all", 3, {})}

\* tools mappings: any of the four tools the rules name, alone or on top of the
\* seven others, disabled ones left out or written as false
RuleToolMaps ==
    {ToolMap(on \cup extra, off) :
        on \in SUBSET CoreTools, extra \in {{}, OtherTools},
        off \in {{}, {"read"}, CoreTools}}
    \cup {DictV([k \in {"bash"} |-> Word("yes")]), DictV([k \in {"bash"} |-> NoneV]),
          DictV([k \in CoreTools \cup OtherTools |-> Word("yes")])}
RuleTools == {NoneV, Word("all"), ListV(1)} \cup RuleToolMaps

BashPermissionValues ==
    {NoneV, Word("deny"), Word("ask"), ListV(1)} \cup {DictV(pm) : pm \in PatternMaps}
RulePermissionMaps ==
    {EmptyDict, DictV([k \in {"edit"} |-> Word("deny")])}
    \cup {DictV([k \in {"bash"} |-> bp]) : bp \in BashPermissionValues}
RulePermissions == {NoneV, Word("ask"), ListV(1)} \cup RulePermissionMaps

SecurityWords == {"overwrite", "exist", "secret", "password", "credential"}
SecurityBodies ==
    {Body(SafetyPrefix(k) \cup x, 0, 0, 1, TRUE) :
        k \in 0..MaxSafetyWords, x \in SUBSET SecurityWords}
SecurityTools == {Absent, NoneV} \cup {ToolMap(on, {}) : on \in SUBSET {"bash", "read", "write"}}
SecurityPermissions == {Absent, NoneV} \cup RulePermissionMaps

StructureWords ==
    {"workflow", "responsibilit", "overview", "example", "error", "limitation", "cannot"}
StructureBodies ==
    {Body(ws, h, f, l, TRUE) :
        ws \in SUBSET StructureWords,
        h \in {0, MinSections - 1, MinSections},
        f \in {0, MinFences - 1, MinFences},
        l \in {MinSections, MinBodyLines - 1, MinBodyLines}}

Call(fn, frontmatter, tools, permission, body) ==
    [fn |-> fn, frontmatter |-> frontmatter, tools |-> tools,
     permission |-> permission, body |-> body]

InitRules ==
    /\ \/ \E d \in RuleDescriptions, mo \in RuleModes :
            input = Call("frontmatter_quality", Frontmatter(d, mo, Absent, Absent),
                         NoneV, NoneV, NoBody)
       \/ \E fn \in {"tool_safety", "risk"}, t \in RuleTools, p \in RulePermissions :
            input = Call(fn, NoneV, t, p, NoBody)
       \/ \E fn \in {"instruction_quality", "documentation"}, b \in StructureBodies :
            input = Call(fn, NoneV, NoneV, NoneV, b)
       \/ \E t \in SecurityTools, p \in SecurityPermissions, b \in SecurityBodies :
            input = Call("security", Frontmatter(Absent, Absent, t, p), NoneV, NoneV, b)
    /\ pc = "start"
    /\ Idle

\* what a rule call leaves in the auditor
RuleEffect(cat, out) ==
    /\ scores' = IF out.raised THEN scores ELSE (cat :> ScoreOf(out.fired)) @@ scores
    /\ findings' = findings \o FindingsOf(out.fired)
    /\ recommendations' = recommendations \o RecommendationsOf(out.fired)
    /\ result' = [kind |-> "rule", raised |-> out.raised]
    /\ pc' = IF out.raised THEN "raised" ELSE "done"
    /\ UNCHANGED <<input, errors, warnings, info, issues>>

ApplyFrontmatterQuality ==
    /\ pc = "start" /\ input.fn = "frontmatter_quality"
    /\ RuleEffect("frontmatter_quality", FrontmatterQualityRule(input.frontmatter))

ApplyToolSafety ==
    /\ pc = "start" /\ input.fn = "tool_safety"
    /\ RuleEffect("tool_safety", ToolSafetyRule(input.tools, input.permission))

ApplyInstructionQuality ==
    /\ pc = "start" /\ input.fn = "instruction_quality"
    /\ RuleEffect("instruction_quality", InstructionQualityRule(input.body))

ApplySecurity ==
    /\ pc = "start" /\ input.fn = "security"
    /\ RuleEffect("security", SecurityRule(input.frontmatter, input.body))

ApplyDocumentation ==
    /\ pc = "start" /\ input.fn = "documentation"
    /\ RuleEffect("documentation", DocumentationRule(input.body))

ApplyAssessRiskLevel ==
    /\ pc = "start" /\ input.fn = "risk"
    /\ LET risk == AssessRiskLevel(input.tools, input.permission)
       IN  /\ result' = [kind |-> "risk", raised |-> risk.raised, level |-> risk.level]
           /\ pc' = IF risk.raised THEN "raised" ELSE "done"
    /\ UNCHANGED <<input, scores, findings, recommendations, errors, warnings, info, issues>>

NextRules ==
    \/ ApplyFrontmatterQuality
    \/ ApplyToolSafety
    \/ ApplyInstructionQuality
    \/ ApplySecurity
    \/ ApplyDocumentation
    \/ ApplyAssessRiskLevel

SpecRules == InitRules /\ [][NextRules]_vars

(***************************************************************************)
(* validate_agent.py.  A validation step appends to the validator's three  *)
(* lists, or raises after what it appended before the fault.               *)
(***************************************************************************)
DescMaxLen == 1024
DescShortLen == 20
MinValidateSafetyCount == 3

valid_tools == CoreTools \cup OtherTools
valid_permission_keys == {"bash", "edit", "write", "webfetch", "skill", "task"}
valid_modes == ValidModes
valid_levels == {"allow", "ask", "deny"}
ValidateSafetyKeywords ==
    <<"safety", "confirm", "verification", "backup", "always", "never", "before",
      "check", "verify">>

FloatV(tenths) == [t |-> "float", s |-> "", n |-> tenths, w |-> {}, m |-> <<>>]

Msg(text, arg) == <<text, arg>>
Notes(raised, e, w, i) == [raised |-> raised, e |-> e, w |-> w, i |-> i]
NoNotes == Notes(FALSE, <<>>, <<>>, <<>>)
ErrorNote(text, arg) == Notes(FALSE, <<Msg(text, arg)>>, <<>>, <<>>)
MsgWhen(cond, text, arg) == IF cond THEN <<Msg(text, arg)>> ELSE <<>>
\* a call that raised before it recorded anything
Faulted == Notes(TRUE, <<>>, <<>>, <<>>)

\* the order in which a mapping's keys are written in the document
KeyOrder ==
    <<"bash", "read", "write", "edit", "glob", "grep", "task", "skill", "webfetch",
      "todoread", "todowrite", "browser", "network", "*", "rm -rf *", "dd *", "mkfs *">>

RECURSIVE KeysInOrder(_, _)
\* the keys of the mapping d, in the order they are written
KeysInOrder(keys, d) ==
    IF keys = <<>> THEN <<>>
    ELSE (IF Head(keys) \in DOMAIN d.m THEN <<Head(keys)>> ELSE <<>>)
         \o KeysInOrder(Tail(keys), d)

RECURSIVE Flatten(_)
Flatten(qs) == IF qs = <<>> THEN <<>> ELSE Head(qs) \o Flatten(Tail(qs))

\* the messages Each(k) of the keys of a mapping d, in the order of its keys
PerKey(d, Each(_)) ==
    LET keys == KeysInOrder(KeyOrder, d)
    IN  Flatten([i \in DOMAIN keys |-> Each(keys[i])])

\* _validate_yaml_syntax
ValidateYamlSyntax(frontmatter) ==
    IF frontmatter = NoneV THEN NoNotes
    ELSE IF ~IsDict(frontmatter)
    THEN ErrorNote("Frontmatter must be a YAML dictionary", "")
    ELSE NoNotes

\* _validate_description
ValidateDescription(description) ==
    IF ~Truthy(description) THEN ErrorNote("Missing required field: description", "")
    ELSE IF ~IsStr(description) THEN ErrorNote("'description' must be a string", "")
    ELSE Notes(FALSE,
               MsgWhen(PyLen(description) > DescMaxLen, "Description exceeds 1024 chars", ""),
               MsgWhen(PyLen(description) < DescShortLen, "Description is very short", "")
               \o MsgWhen(~Contains(description, "<example>"),
                          "Description missing <example> blocks", ""),
               MsgWhen(description.w \cap TriggerKeywords = {},
                       "Consider adding trigger keywords", ""))

\* _validate_mode
ValidateMode(mode) ==
    IF mode = NoneV THEN Notes(FALSE, <<>>, <<>>, <<Msg("No 'mode' specified", "")>>)
    ELSE IF ~Hashable(mode) THEN Notes(TRUE, <<>>, <<>>, <<>>)   \* mode not in set
    ELSE Notes(FALSE,
               MsgWhen(~(IsStr(mode) /\ mode.s \in valid_modes), "Invalid mode", Repr(mode)),
               <<>>, <<>>)

\* _check_tool_patterns
CheckToolPatterns(tools) ==
    Notes(FALSE, <<>>,
          MsgWhen(EnabledCount(tools) >= KitchenSinkCount, "Agent has many tools enabled",
                  ToString(EnabledCount(tools)))
          \o MsgWhen(ToolOn(tools, "write") /\ ~ToolOn(tools, "read"),
                     "Agent has 'write' but not 'read'", "")
          \o MsgWhen(ToolOn(tools, "edit") /\ ~ToolOn(tools, "read"),
                     "Agent has 'edit' but not 'read'", ""),
          MsgWhen(ToolOn(tools, "bash"), "Agent has 'bash' enabled", ""))

\* a faulty _validate_tools that checks the names and not the values; C22
\* tells it from the code's
ValidateToolsNamesOnly(tools) ==
    IF tools = NoneV THEN Notes(FALSE, <<>>, <<>>, <<Msg("No 'tools' specified", "")>>)
    ELSE IF ~IsDict(tools) THEN ErrorNote("'tools' must be a dictionary/object", "")
    ELSE LET patterns == CheckToolPatterns(tools)
         IN  Notes(FALSE,
                   MsgWhen(DOMAIN tools.m \ valid_tools # {}, "Invalid tools", ""),
                   patterns.w, patterns.i)

\* _validate_tools
ValidateTools(tools) ==
    IF tools = NoneV THEN Notes(FALSE, <<>>, <<>>, <<Msg("No 'tools' specified", "")>>)
    ELSE IF ~IsDict(tools) THEN ErrorNote("'tools' must be a dictionary/object", "")
    ELSE LET NotBool(k) == MsgWhen(tools.m[k].t # "bool", "Tool must be true/false", k)
             patterns == CheckToolPatterns(tools)
         IN  Notes(FALSE,
                   MsgWhen(DOMAIN tools.m \ valid_tools # {}, "Invalid tools", "")
                   \o PerKey(tools, NotBool),
                   patterns.w, patterns.i)

RECURSIVE PatternLevels(_, _, _)
\* for pattern, level in value.items(): the errors of the patterns in order;
\* 'level not in valid_levels' raises on an unhashable level, and the loop
\* ends there
PatternLevels(key, value, patterns) ==
    IF patterns = <<>> THEN NoNotes
    ELSE LET level == value.m[Head(patterns)]
             rest == PatternLevels(key, value, Tail(patterns))
         IN  IF ~Hashable(level) THEN Faulted
             ELSE Notes(rest.raised,
                        MsgWhen(~(IsStr(level) /\ level.s \in valid_levels),
                                "Permission pattern has invalid value", key) \o rest.e,
                        <<>>, <<>>)

\* _validate_permission, the entry under one key
PermissionEntry(key, value) ==
    IF IsStr(value)
    THEN Notes(FALSE, MsgWhen(value.s \notin valid_levels,
                              "Permission has invalid value", key), <<>>, <<>>)
    ELSE IF IsDict(value) THEN PatternLevels(key, value, KeysInOrder(KeyOrder, value))
    ELSE ErrorNote("Permission must be a string or dictionary", key)

RECURSIVE PermissionEntries(_, _)
\* for key, value in permission.items(): the errors of the entries in order,
\* up to an entry that raises
PermissionEntries(permission, keys) ==
    IF keys = <<>> THEN NoNotes
    ELSE LET entry == PermissionEntry(Head(keys), permission.m[Head(keys)])
             rest == PermissionEntries(permission, Tail(keys))
         IN  IF entry.raised THEN entry
             ELSE Notes(rest.raised, entry.e \o rest.e, <<>>, <<>>)

\* _validate_permission
ValidatePermission(permission) ==
    IF permission = NoneV THEN NoNotes
    ELSE IF ~IsDict(permission) THEN ErrorNote("'permission' must be a dictionary/object", "")
    ELSE LET entries == PermissionEntries(permission, KeysInOrder(KeyOrder, permission))
         IN  Notes(entries.raised, entries.e,
                   MsgWhen(DOMAIN permission.m \ valid_permission_keys # {},
                           "Unusual permission keys", ""),
                   <<>>)

\* a number in tenths: isinstance(v, (int, float)) holds of ints, floats and bools
IsNumber(v) == v.t \in {"int", "float", "bool"}
IsInt(v) == v.t \in {"int", "bool"}
Tenths(v) == IF v.t = "float" THEN v.n ELSE 10 * v.n

\* _validate_optional_fields
ValidateOptionalFields(frontmatter) ==
    LET model == Get(frontmatter, "model", NoneV)
        temp == Get(frontmatter, "temperature", NoneV)
        max_steps == Get(frontmatter, "maxSteps", NoneV)
        hidden == Get(frontmatter, "hidden", NoneV)
        mode == Get(frontmatter, "mode", NoneV)
    IN  Notes(FALSE,
              MsgWhen(Truthy(model) /\ ~IsStr(model), "'model' must be a string", "")
              \o (IF temp = NoneV THEN <<>>
                  ELSE IF ~IsNumber(temp) THEN <<Msg("'temperature' must be a number", "")>>
                  ELSE MsgWhen(~(0 <= Tenths(temp) /\ Tenths(temp) <= 10),
                               "'temperature' must be between 0.0 and 1.0", ""))
              \o (IF max_steps = NoneV THEN <<>>
                  ELSE IF ~IsInt(max_steps) THEN <<Msg("'maxSteps' must be an integer", "")>>
                  ELSE MsgWhen(max_steps.n < 1, "'maxSteps' must be at least 1", ""))
              \o MsgWhen(hidden # NoneV /\ hidden.t # "bool",
                         "'hidden' must be true/false (boolean)", ""),
              MsgWhen(Truthy(model) /\ IsStr(model) /\ "/" \notin model.w,
                      "Model should be in format 'provider/model-id'", "")
              \o MsgWhen(hidden # NoneV /\ Truthy(hidden) /\ ~EqStr(mode, "subagent"),
                         "'hidden' is only meaningful for mode: subagent", ""),
              <<>>)

\* _has_safety_keywords
HasSafetyKeywords(body) ==
    CountIn(ValidateSafetyKeywords, body.words) >= MinValidateSafetyCount

\* _validate_body
ValidateBody(body, tools) ==
    IF BodyBlank(body)
    THEN ErrorNote("Agent has no instruction content after frontmatter", "")
    ELSE IF ~IsDict(tools) THEN Notes(TRUE, <<>>, <<>>, <<>>)    \* tools.get
    ELSE Notes(FALSE, <<>>,
               MsgWhen(ToolOn(tools, "bash") /\ ~HasSafetyKeywords(body),
                       "Agent has 'bash' enabled but no clear safety protocols found", "")
               \o MsgWhen(body.h2 = 0, "No sections found (no ## headers)", ""),
               MsgWhen(body.fences = 0, "No code blocks found", ""))

RECURSIVE RunValidations(_, _)
\* the validation calls of validate(), in order; a fault in one ends the run
RunValidations(steps, acc) ==
    IF steps = <<>> THEN acc
    ELSE LET st == Head(steps)
             next == [raised |-> st.raised,
                      errors |-> acc.errors \o st.e,
                      warnings |-> acc.warnings \o st.w,
                      info |-> acc.info \o st.i]
         IN  IF st.raised THEN next ELSE RunValidations(Tail(steps), next)

\* the calls of validate(), lines 52-58; frontmatter.get faults on a non-mapping
ValidationSteps(frontmatter, body) ==
    IF ~IsDict(frontmatter)
    THEN <<ValidateYamlSyntax(frontmatter), Faulted>>
    ELSE << ValidateYamlSyntax(frontmatter),
            ValidateDescription(Get(frontmatter, "description", NoneV)),
            ValidateMode(Get(frontmatter, "mode", NoneV)),
            ValidateTools(Get(frontmatter, "tools", NoneV)),
            ValidatePermission(Get(frontmatter, "permission", NoneV)),
            ValidateOptionalFields(frontmatter),
            ValidateBody(body, Get(frontmatter, "tools", EmptyDict)) >>

\* a faulty _get_results that lets warnings fail the document; C5 tells it
\* from the code's
GetResultsStrict(errs, warns, infos) ==
    [errors |-> errs, warnings |-> warns, info |-> infos,
     is_valid |-> Len(errs) = 0 /\ Len(warns) = 0]

\* _get_results
GetResults(errs, warns, infos) ==
    [errors |-> errs, warnings |-> warns, info |-> infos, is_valid |-> Len(errs) = 0]

\* print_results: the exit code main() returns
PrintResults(results) == IF results.is_valid THEN 0 ELSE 1

Returned(is_valid, after) ==
    LET results == GetResults(after.errors, after.warnings, after.info)
    IN  [after |-> after,
         result |-> [kind |-> "validate", is_valid |-> is_valid, results |-> results,
                     exit_code |-> PrintResults(results)]]

NoLists == [raised |-> FALSE, errors |-> <<>>, warnings |-> <<>>, info |-> <<>>]

\* validate(): the validator's lists afterwards and what it returned
ValidateRun(doc) ==
    IF ~doc.exists
    THEN Returned(FALSE, [NoLists EXCEPT !.errors = <<Msg("File not found", "")>>])
    ELSE LET yamlError == doc.delimited /\ ~doc.yaml_ok
             frontmatter == ExtractFrontmatter(doc)
             extracted == [NoLists EXCEPT
                              !.errors = MsgWhen(yamlError, "YAML parsing error", "")]
         IN  IF frontmatter = NoneV
             THEN Returned(FALSE,
                           [extracted EXCEPT
                               !.errors = @ \o <<Msg("No valid frontmatter found", "")>>])
             ELSE LET after == RunValidations(ValidationSteps(frontmatter, doc.body),
                                              extracted)
                  IN  IF after.raised THEN [after |-> after, result |-> NoResult]
                      ELSE Returned(Len(after.errors) = 0, after)

(***************************************************************************)
(* Inputs of the validation runs.                                          *)
(***************************************************************************)
LongDescription == StrV("very long text", 1100, {"<example>"})
DocBodies ==
    {NoBody, Body({}, 0, 0, 1, TRUE), Body({}, 1, 2, 2, TRUE),
     Body(SafetyPrefix(MaxSafetyWords), 1, 0, 2, TRUE),
     Body({"safety", "before", "verification"}, 0, 2, 1, TRUE)}

DocDescriptions ==
    {Absent, ShortDescription, GoodDescription, LongDescription, IntV(5)}
DocModes ==
    {Absent, StrV("primary", 7, {}), StrV("subagent", 8, {}), StrV("turbo", 5, {}),
     ListV(1), BoolV(TRUE)}
DocTools ==
    {Absent, NoneV, Word("all"), ListV(1), EmptyDict,
     ToolMap({"read"}, {}), ToolMap({"bash", "read"}, {"write"}),
     ToolMap({"write", "edit"}, {}), ToolMap(valid_tools, {}),
     ToolMap({"read", "browser"}, {}),
     DictV([k \in {"bash", "read"} |-> IF k = "bash" THEN Word("yes") ELSE BoolV(TRUE)])}
DocPermissions ==
    {Absent, NoneV, Word("ask"), ListV(1), EmptyDict,
     DictV([k \in {"bash"} |-> Word("deny")]),
     DictV([k \in {"bash"} |-> Word("maybe")]),
     DictV([k \in {"bash"} |-> ListV(1)]),
     DictV([k \in {"network"} |-> Word("allow")]),
     DictV([k \in {"bash"} |-> DictV([p \in {"*"} |-> ListV(1)])])}
    \cup {DictV([k \in {"bash", "edit"} |->
                    IF k = "bash" THEN DictV(pm) ELSE Word("ask")]) :
            pm \in [{"*", "rm -rf *"} -> {Word("ask"), Word("deny"), Word("maybe")}]}

DocModels == {Absent, StrV("anthropic/model", 15, {"/"}), StrV("gpt", 3, {}), IntV(4)}
DocTemperatures ==
    {Absent, FloatV(0), FloatV(5), FloatV(10), FloatV(15), FloatV(-1), IntV(1), IntV(2),
     Word("hot"), BoolV(TRUE)}
DocMaxSteps == {Absent, IntV(1), IntV(25), IntV(0), IntV(-3), FloatV(25), Word("ten"), BoolV(TRUE), BoolV(FALSE)}
DocHidden == {Absent, BoolV(TRUE), BoolV(FALSE), Word("yes"), IntV(1)}

\* a frontmatter mapping with all eight fields of the format
FullFrontmatter(description, mode, tools, permission, model, temperature, maxSteps, hidden) ==
    LET all == [description |-> description, mode |-> mode, tools |-> tools,
                permission |-> permission, model |-> model, temperature |-> temperature,
                maxSteps |-> maxSteps, hidden |-> hidden]
    IN  DictV([k \in {x \in DOMAIN all : all[x] # Absent} |-> all[k]])

ValidateInput(d) == [fn |-> "validate", doc |-> d]

InitValidate ==
    /\ \/ input = ValidateInput(Doc(FALSE, FALSE, FALSE, NoneV, NoBody))
       \/ \E delim \in BOOLEAN, b \in DocBodies :
            input = ValidateInput(Doc(TRUE, delim, FALSE, NoneV, b))
       \/ \E fm \in {NoneV, StrV("just text", 9, {}), ListV(2)}, b \in DocBodies :
            input = ValidateInput(Doc(TRUE, TRUE, TRUE, fm, b))
       \/ \E d \in DocDescriptions, mo \in DocModes, t \in DocTools,
             p \in DocPermissions, b \in DocBodies :
            input = ValidateInput(Doc(TRUE, TRUE, TRUE,
                        FullFrontmatter(d, mo, t, p, Absent, Absent, Absent, Absent), b))
       \/ \E mo \in DocModes, ml \in DocModels, tp \in DocTemperatures,
             ms \in DocMaxSteps, h \in DocHidden :
            input = ValidateInput(Doc(TRUE, TRUE, TRUE,
                        FullFrontmatter(GoodDescription, mo, Absent, Absent, ml, tp, ms, h),
                        Body({}, 1, 2, 2, TRUE)))
    /\ pc = "start"
    /\ Idle

\* the orders a set can be walked in
SetOrders(S) ==
    {o \in [1..Cardinality(S) -> S] : \A i, j \in DOMAIN o : i # j => o[i] # o[j]}

\* the messages that end with ', '.join(set): the set in the order it is walked
\* becomes part of the message
Joined(msgs, text, order) ==
    [i \in DOMAIN msgs |-> IF msgs[i][1] = text THEN Append(msgs[i], order) ELSE msgs[i]]

HasMsg(msgs, text) == \E i \in DOMAIN msgs : msgs[i][1] = text

\* validate() with the sets valid_modes and valid_levels walked in the given
\* orders
ValidateRunIn(run, modeOrder, levelOrder) ==
    LET errs == Joined(Joined(run.after.errors, "Invalid mode", modeOrder),
                       "Permission has invalid value", levelOrder)
    IN  [after |-> [run.after EXCEPT !.errors = errs],
         result |-> IF run.result = NoResult THEN NoResult
                    ELSE [run.result EXCEPT !.results.errors = errs]]

\* what a run of validate_agent.py on the input document leaves
ValidateEffect ==
    /\ \E plain \in {ValidateRun(input.doc)} :
         \E modeOrder \in IF HasMsg(plain.after.errors, "Invalid mode")
                          THEN SetOrders(valid_modes) ELSE {<<>>} :
           \E levelOrder \in IF HasMsg(plain.after.errors, "Permission has invalid value")
                              THEN SetOrders(valid_levels) ELSE {<<>>} :
             \E run \in {ValidateRunIn(plain, modeOrder, levelOrder)} :
               /\ errors' = run.after.errors
               /\ warnings' = run.after.warnings
               /\ info' = run.after.info
               /\ result' = run.result
               /\ pc' = IF run.result = NoResult THEN "raised" ELSE "done"
    /\ UNCHANGED <<input, scores, findings, recommendations, issues>>

\* AgentValidator(path).validate(), and main()'s exit code
Validate ==
    /\ pc = "start" /\ input.fn = "validate"
    /\ ValidateEffect

NextValidate == Validate

SpecValidate == InitValidate /\ [][NextValidate]_vars

(***************************************************************************)
(* consistency_check.py.  A file's text is the sequence of its lines.  A   *)
(* line is a record: k its kind, a its text argument, n its number, w the  *)
(* lower-cased words of interest it contains, p a link target's path.      *)
(*   blank    a whitespace-only line                                       *)
(*   text     prose                                                        *)
(*   fence    ``` followed by the language a ("" for a bare fence)         *)
(*   field    n spaces, then "a:" and a value                              *)
(*   link     prose with one Markdown link; a is "url", "anchor" or "path" *)
(*   heading  n '#' characters, then "a. Title" (a = "" when unnumbered)   *)
(*   path     prose naming the agent directory path a                      *)
(***************************************************************************)
Line(k, a, n, w, p) == [k |-> k, a |-> a, n |-> n, w |-> w, p |-> p]
BlankLine == Line("blank", "", 0, {}, <<>>)
TextLine(w) == Line("text", "", 0, w, <<>>)
FenceLine(lang) == Line("fence", lang, 0, IF lang = "yaml" THEN {"yaml"} ELSE {}, <<>>)
FieldLine(name, indent) ==
    Line("field", name, indent, IF name = "skills" THEN {"skills:"} ELSE {}, <<>>)
LinkLine(kind, target) == Line("link", kind, 0, {}, target)
HeadingLine(level, number) == Line("heading", number, level, {}, <<>>)
PathLine(path) == Line("path", path, 0, {}, <<>>)

DEPRECATED_FIELDS == {"name", "skills", "permissions"}
CORRECT_AGENT_PATH == "~/.config/opencode/agent/"
INCORRECT_AGENT_PATHS ==
    <<"~/.config/opencode/agents/", "~/.config/claude/agent/", "~/.claude/agent/">>
MinHeadingLevel == 2
MaxHeadingLevel == 4
ContextBefore == 3
ContextAfter == 3

\* Issue: line 0 stands for None; message is the text, its argument and the
\* line number it cites (0 when it cites none)
Issue(severity, file, line, message, arg, suggestion) ==
    [severity |-> severity, file |-> file, line |-> line,
     message |-> [text |-> message, arg |-> arg, cites |-> 0],
     suggestion |-> suggestion]

\* the errors, warnings and infos properties of ConsistencyReport
ReportErrors(iss) == SelectSeq(iss, LAMBDA i : i.severity = "error")
ReportWarnings(iss) == SelectSeq(iss, LAMBDA i : i.severity = "warning")
ReportInfos(iss) == SelectSeq(iss, LAMBDA i : i.severity = "info")

\* a faulty is_consistent that any issue falsifies; C6 tells it from the code's
IsConsistentWhenEmpty(iss) == Len(iss) = 0

\* ConsistencyReport.is_consistent
IsConsistent(iss) == Len(ReportErrors(iss)) = 0

\* print_report: the exit code
PrintReport(iss) == IF IsConsistent(iss) THEN 0 ELSE 1

\* _get_deprecation_suggestion
DeprecationSuggestion(field) ==
    CASE field = "name" -> "Remove 'name:' - agent name comes from the filename"
      [] field = "skills" ->
           "Remove 'skills:' - skills are loaded at runtime via the skill tool. Document when to load skills in agent instructions instead."
      [] field = "permissions" ->
           "Rename to 'tools:' for tool enablement, or 'permission:' for access control patterns"
      [] OTHER -> "Remove deprecated field"

OpensYaml(l) == l.k = "fence" /\ l.a \in {"yaml", "yml"}
HasFence(l) == l.k = "fence"

RECURSIVE FirstNonBlank(_, _)
\* the least index >= from of a line that is not whitespace only, or 0
FirstNonBlank(lines, from) ==
    IF from > Len(lines) THEN 0
    ELSE IF lines[from].k # "blank" THEN from
    ELSE FirstNonBlank(lines, from + 1)

RECURSIVE FirstFence(_, _)
\* the least index >= from of a line with ```, or 0
FirstFence(lines, from) ==
    IF from > Len(lines) THEN 0
    ELSE IF HasFence(lines[from]) THEN from
    ELSE FirstFence(lines, from + 1)

RECURSIVE YamlBlocks(_, _)
\* the matches of ```ya?ml\s*\n(.*?)``` from line i on: start is the line of the
\* opening fence, first the line group(1) begins on (\s*\n runs over the blank
\* lines after the fence), close the line of the next ```
YamlBlocks(lines, i) ==
    IF i > Len(lines) THEN <<>>
    ELSE IF ~OpensYaml(lines[i]) THEN YamlBlocks(lines, i + 1)
    ELSE LET first == FirstNonBlank(lines, i + 1)
             close == IF first = 0 THEN 0 ELSE FirstFence(lines, first)
         IN  IF close = 0 THEN YamlBlocks(lines, i + 1)
             ELSE <<[start |-> i, first |-> first, close |-> close]>>
                  \o YamlBlocks(lines, close + 1)

RECURSIVE BlankRunStart(_, _, _)
\* where a match of ^(\s*)field: on line k begins: on the first line of the blank
\* lines that lead up to line k, not before line lo
BlankRunStart(lines, k, lo) ==
    IF k > lo /\ lines[k - 1].k = "blank" THEN BlankRunStart(lines, k - 1, lo) ELSE k

\* a faulty search that stops at the first line holding the field; C13 tells
\* it from the code's
FieldLinesFirstOnly(lines, block, field) ==
    LET all == SelectSeq([i \in 1..(block.close - block.first) |-> block.first + i - 1],
                         LAMBDA k : lines[k].k = "field" /\ lines[k].a = field)
    IN  IF all = <<>> THEN <<>> ELSE <<all[1]>>

\* the lines of a block that hold the field, in order
FieldLines(lines, block, field) ==
    SelectSeq([i \in 1..(block.close - block.first) |-> block.first + i - 1],
              LAMBDA k : lines[k].k = "field" /\ lines[k].a = field)

\* block_start + yaml_content[:m.start()].count('\n') + 1 for the match on line k
ReportedLine(lines, block, k) ==
    block.start + (BlankRunStart(lines, k, block.first) - block.first) + 1

\* _check_yaml_blocks, one block: the fields in the order the set is walked
BlockIssues(lines, file, block, fieldOrder) ==
    LET OfField(field) ==
            LET at == FieldLines(lines, block, field)
            IN  [j \in DOMAIN at |->
                    Issue("error", file, ReportedLine(lines, block, at[j]),
                          "Deprecated field found in YAML example", field,
                          DeprecationSuggestion(field))]
        permissions == FieldLines(lines, block, "permissions")
    IN  Flatten([f \in DOMAIN fieldOrder |-> OfField(fieldOrder[f])])
        \o (IF permissions = <<>> THEN <<>>
            ELSE <<Issue("error", file, ReportedLine(lines, block, permissions[1]),
                         "Field 'permissions:' should be 'permission:' (singular)", "",
                         "Change 'permissions:' to 'permission:'")>>)

\* _check_yaml_blocks
CheckYamlBlocks(lines, file, fieldOrder) ==
    LET blocks == YamlBlocks(lines, 1)
    IN  Flatten([b \in DOMAIN blocks |-> BlockIssues(lines, file, blocks[b], fieldOrder)])

\* _check_paths
CheckPaths(lines, file) ==
    LET OfPath(path) ==
            LET at == SelectSeq([i \in DOMAIN lines |-> i],
                                LAMBDA i : lines[i].k = "path" /\ lines[i].a = path)
            IN  [j \in DOMAIN at |->
                    Issue("error", file, at[j], "Incorrect path found", path,
                          CORRECT_AGENT_PATH)]
    IN  Flatten([q \in DOMAIN INCORRECT_AGENT_PATHS |-> OfPath(INCORRECT_AGENT_PATHS[q])])

\* the words of lines[context_start:context_end] around line i (1-based)
ContextWords(lines, i) ==
    LET lo == Max(0, i - ContextBefore) + 1
        hi == IF i + ContextAfter < Len(lines) THEN i + ContextAfter ELSE Len(lines)
    IN  UNION {lines[j].w : j \in lo..hi}

\* _check_deprecated_references
CheckDeprecatedReferences(lines, file) ==
    LET Flagged(i) ==
            /\ lines[i].k \notin {"fence", "heading"}
            /\ "skills:" \in lines[i].w
            /\ ContextWords(lines, i) \cap {"deprecated", "runtime", "not"} = {}
            /\ ContextWords(lines, i) \cap {"frontmatter", "yaml", "add"} # {}
        at == SelectSeq([i \in DOMAIN lines |-> i], Flagged)
    IN  [j \in DOMAIN at |->
            Issue("warning", file, at[j],
                  "Possible reference to deprecated 'skills:' field usage", "",
                  "Verify this doesn't suggest using skills: in frontmatter")]

\* _check_file: the issues of one file
CheckFile(f, fieldOrder) ==
    IF ~f.readable
    THEN <<Issue("error", f.path, 0, "Could not read file", "", "")>>
    ELSE CheckYamlBlocks(f.lines, f.path, fieldOrder)
         \o CheckPaths(f.lines, f.path)
         \o CheckDeprecatedReferences(f.lines, f.path)

\* the directory of a file path
Parent(path) == SubSeq(path, 1, Len(path) - 1)

RECURSIVE Resolve(_, _)
\* (dir / target).resolve() relative to the root: the path, or <<"..">> once it
\* leaves the root
Resolve(dir, target) ==
    IF target = <<>> THEN dir
    ELSE IF dir = <<"..">> THEN dir
    ELSE IF Head(target) = "." THEN Resolve(dir, Tail(target))
    ELSE IF Head(target) = ".."
    THEN (IF dir = <<>> THEN <<"..">> ELSE Resolve(Parent(dir), Tail(target)))
    ELSE Resolve(Append(dir, Head(target)), Tail(target))

\* every path that exists under the root: the files and their directories
ExistingPaths(tree) ==
    {<<>>}
    \cup {tree.files[i].path : i \in DOMAIN tree.files}
    \cup {Parent(tree.files[i].path) : i \in DOMAIN tree.files}

\* _check_cross_references, the links of one file
FileLinkIssues(tree, f) ==
    LET Dangling(i) ==
            /\ f.lines[i].k = "link"
            /\ f.lines[i].a = "path"
            \* target_path.relative_to(self.skill_path) fails for every target when
            \* the root was not given in resolved form
            /\ tree.root_resolved
            /\ Resolve(Parent(f.path), f.lines[i].p) # <<"..">>
            /\ Resolve(Parent(f.path), f.lines[i].p) \notin ExistingPaths(tree)
        at == SelectSeq([i \in DOMAIN f.lines |-> i], Dangling)
    IN  [j \in DOMAIN at |->
            Issue("warning", f.path, at[j], "Broken link", "",
                  "Verify the file exists")]

\* a faulty grouping that puts the numbered headings of all levels together;
\* C15 tells it from the code's
HeadingsAnyLevel(lines, level) ==
    LET at == SelectSeq([i \in DOMAIN lines |-> i],
                        LAMBDA i : /\ lines[i].k = "heading"
                                   /\ lines[i].n >= MinHeadingLevel
                                   /\ lines[i].n <= MaxHeadingLevel
                                   /\ lines[i].a # "")
    IN  [j \in DOMAIN at |-> <<at[j], lines[at[j]].a>>]

\* the numbered headings of one level, as <<line, number>>
HeadingsAt(lines, level) ==
    LET at == SelectSeq([i \in DOMAIN lines |-> i],
                        LAMBDA i : /\ lines[i].k = "heading"
                                   /\ lines[i].n = level
                                   /\ lines[i].a # "")
    IN  [j \in DOMAIN at |-> <<at[j], lines[at[j]].a>>]

\* the duplicates among the headings of one level
LevelIssues(headings) ==
    LET FirstSeen(j) == CHOOSE i \in 1..j : headings[i][2] = headings[j][2]
                                  /\ \A h \in 1..(i - 1) : headings[h][2] # headings[j][2]
        dups == SelectSeq([j \in DOMAIN headings |-> j], LAMBDA j : FirstSeen(j) # j)
    IN  [d \in DOMAIN dups |->
            [Issue("error", <<"SKILL.md">>, headings[dups[d]][1],
                   "Duplicate section number (first seen at line)", headings[dups[d]][2],
                   "Renumber sections sequentially")
             EXCEPT !.message.cites = headings[FirstSeen(dups[d])][1]]]

RECURSIVE LevelsInOrder(_, _, _)
\* the heading levels of the file in the order they first occur
LevelsInOrder(lines, i, seen) ==
    IF i > Len(lines) THEN <<>>
    ELSE IF /\ lines[i].k = "heading" /\ lines[i].a # ""
            /\ lines[i].n >= MinHeadingLevel /\ lines[i].n <= MaxHeadingLevel
            /\ lines[i].n \notin seen
    THEN <<lines[i].n>> \o LevelsInOrder(lines, i + 1, seen \cup {lines[i].n})
    ELSE LevelsInOrder(lines, i + 1, seen)

\* _check_section_numbering
CheckSectionNumbering(lines) ==
    LET levels == LevelsInOrder(lines, 1, {})
    IN  Flatten([v \in DOMAIN levels |-> LevelIssues(HeadingsAt(lines, levels[v]))])

\* the index of SKILL.md among the files, or 0
SkillIndex(tree) ==
    IF \E i \in DOMAIN tree.files : tree.files[i].path = <<"SKILL.md">>
    THEN CHOOSE i \in DOMAIN tree.files : tree.files[i].path = <<"SKILL.md">>
    ELSE 0

\* check_all on the files as rglob lists them: the report's issues, or a fault
\* when _check_cross_references or _check_section_numbering reads a file that
\* cannot be read
CheckAll(tree, fieldOrder) ==
    LET perFile == Flatten([i \in DOMAIN tree.files |-> CheckFile(tree.files[i], fieldOrder)])
        unreadable == \E i \in DOMAIN tree.files : ~tree.files[i].readable
        \* the files the cross-reference pass gets through
        passed == IF unreadable
                  THEN (CHOOSE i \in DOMAIN tree.files :
                            /\ ~tree.files[i].readable
                            /\ \A h \in 1..(i - 1) : tree.files[h].readable) - 1
                  ELSE Len(tree.files)
        links == Flatten([i \in 1..passed |-> FileLinkIssues(tree, tree.files[i])])
        numbering == IF SkillIndex(tree) = 0 THEN <<>>
                     ELSE CheckSectionNumbering(tree.files[SkillIndex(tree)].lines)
    IN  IF unreadable THEN [raised |-> TRUE, issues |-> perFile \o links]
        ELSE [raised |-> FALSE, issues |-> perFile \o links \o numbering]

\* main() of consistency_check.py
ScanRun(tree, fieldOrder) ==
    IF ~tree.exists \/ SkillIndex(tree) = 0
    THEN [issues |-> <<>>, result |-> [kind |-> "scan", scanned |-> FALSE, exit_code |-> 1]]
    ELSE LET run == CheckAll(tree, fieldOrder)
         IN  IF run.raised THEN [issues |-> run.issues, result |-> NoResult]
             ELSE [issues |-> run.issues,
                   result |-> [kind |-> "scan", scanned |-> TRUE,
                               exit_code |-> PrintReport(run.issues)]]

(***************************************************************************)
(* The trees the scan is run on: a root, given in resolved form or not,    *)
(* and the Markdown files under it in the order rglob lists them.          *)
(***************************************************************************)
MaxFiles == 2
MaxIssues == 4

FilePaths == {<<"SKILL.md">>, <<"docs", "guide.md">>, <<"b.md">>}

FileTexts ==
    { <<HeadingLine(2, "1"), TextLine({}), HeadingLine(2, "2")>>,
      <<HeadingLine(2, "1"), HeadingLine(3, "1"), HeadingLine(2, "1")>>,
      <<FenceLine("yaml"), FieldLine("name", 0), FieldLine("permissions", 0), FenceLine("")>>,
      <<FenceLine("yml"), BlankLine, FieldLine("mode", 0), BlankLine,
        FieldLine("skills", 2), FenceLine("")>>,
      <<TextLine({"add", "skills:"})>>,
      <<TextLine({"skills:", "deprecated", "frontmatter"})>>,
      <<LinkLine("path", <<"docs", "guide.md">>), LinkLine("path", <<"..", "x.md">>),
        LinkLine("url", <<>>)>>,
      <<PathLine("~/.config/opencode/agents/")>>,
      <<PathLine("~/.claude/agent/"), FenceLine("yaml"), FieldLine("name", 0),
        FenceLine("")>>,
      <<FenceLine("yaml"), FieldLine("name", 0), FieldLine("name", 2), FenceLine(""),
        TextLine({}), FenceLine("yml"), FieldLine("skills", 0), FenceLine("")>>,
      <<FenceLine("python"), FieldLine("name", 0), FenceLine("")>>,
      <<FenceLine("yaml"), BlankLine, FieldLine("mode", 0), FieldLine("name", 0),
        FenceLine("")>>,
      <<HeadingLine(2, "1"), HeadingLine(3, "1"), HeadingLine(2, "2"), HeadingLine(2, "1"),
        HeadingLine(5, "3"), HeadingLine(5, "3"), HeadingLine(2, "1")>> }

File(path, readable, lines) == [path |-> path, readable |-> readable, lines |-> lines]

Files == {File(path, TRUE, lines) : path \in FilePaths, lines \in FileTexts}
         \cup {File(path, FALSE, <<>>) : path \in FilePaths}

Tree(exists, resolved, files) ==
    [exists |-> exists, root_resolved |-> resolved, files |-> files]

DistinctPaths(files) ==
    \A i, j \in DOMAIN files : i # j => files[i].path # files[j].path

\* the orders a set of three fields can be walked in
FieldOrders ==
    {o \in [1..3 -> DEPRECATED_FIELDS] : \A i, j \in 1..3 : i # j => o[i] # o[j]}

Severities == {"error", "warning", "info"}

ScanInput(tree) == [fn |-> "scan", tree |-> tree]
ReportInput == [fn |-> "report"]

InitScan ==
    /\ \/ input = ScanInput(Tree(FALSE, TRUE, <<>>))
       \/ \E n \in 0..MaxFiles, resolved \in BOOLEAN :
            \E files \in [1..n -> Files] :
               /\ DistinctPaths(files)
               /\ input = ScanInput(Tree(TRUE, resolved, files))
       \/ input = ReportInput
    /\ pc = "start"
    /\ Idle

\* what a run of consistency_check.py on the input tree leaves
ScanEffect ==
    /\ \E fieldOrder \in FieldOrders :
         \E run \in {ScanRun(input.tree, fieldOrder)} :
           /\ issues' = run.issues
           /\ result' = run.result
           /\ pc' = IF run.result = NoResult THEN "raised" ELSE "done"
    /\ UNCHANGED <<input, scores, findings, recommendations, errors, warnings, info>>

\* main() of consistency_check.py: check_all() and print_report()
Scan ==
    /\ pc = "start" /\ input.fn = "scan"
    /\ ScanEffect

\* report.issues.append(Issue(...)) on a ConsistencyReport
AppendIssue ==
    /\ pc = "start" /\ input.fn = "report"
    /\ Len(issues) < MaxIssues
    /\ \E severity \in Severities :
           issues' = Append(issues, Issue(severity, <<"SKILL.md">>, 0, "", "", ""))
    /\ UNCHANGED <<input, pc, scores, findings, recommendations, errors, warnings,
                   info, result>>

\* print_report(report, skill_path) on a ConsistencyReport
Report ==
    /\ pc = "start" /\ input.fn = "report"
    /\ result' = [kind |-> "scan", scanned |-> TRUE, exit_code |-> PrintReport(issues)]
    /\ pc' = "done"
    /\ UNCHANGED <<input, scores, findings, recommendations, errors, warnings, info,
                   issues>>

NextScan == Scan \/ AppendIssue \/ Report

SpecScan == InitScan /\ [][NextScan]_vars

(***************************************************************************)
(* Both single-document programs on the same documents.                    *)
(***************************************************************************)
InitDocs == InitAudit \/ InitValidate

NextDocs == Audit \/ Validate

SpecDocs == InitDocs /\ [][NextDocs]_vars

(***************************************************************************)
(* _extract_frontmatter on the text of a document.  The text is the       *)
(* sequence content.split('\n') of its lines, so a text that ends with a   *)
(* newline has "" as its last line.                                        *)
(***************************************************************************)
MaxDocLines == 5

DocLines == {"---", "--- ", "", "  ", "key: v", "Body"}

\* the line is --- followed by whitespace only
IsDelimiter(l) == l \in {"---", "--- "}
\* the line is whitespace only
IsBlank(l) == l \in {"", "  "}

RECURSIVE NextNonBlank(_, _)
\* the least index >= from of a line that is not whitespace only, or 0
NextNonBlank(lines, from) ==
    IF from > Len(lines) THEN 0
    ELSE IF ~IsBlank(lines[from]) THEN from
    ELSE NextNonBlank(lines, from + 1)

RECURSIVE NextDelimiter(_, _)
\* the least index >= from of a line that \n---\s*\n matches: a delimiter line
\* with a newline after it, or 0
NextDelimiter(lines, from) ==
    IF from >= Len(lines) THEN 0
    ELSE IF IsDelimiter(lines[from]) THEN from
    ELSE NextDelimiter(lines, from + 1)

\* re.match(r'^---\s*\n(.*?)\n---\s*\n(.*)', content, re.DOTALL): the first and
\* last line of group(1), the line of the closing delimiter and the first line
\* of group(2); matched is FALSE when there is no match.  \s* runs over the
\* blank lines after a delimiter and gives back as little as the match needs.
MatchFrontmatter(lines) ==
    LET none == [matched |-> FALSE, start |-> 0, close |-> 0, body |-> 0]
        j == NextNonBlank(lines, 2)
        c == NextDelimiter(lines, j + 1)
        At(start, close) ==
            [matched |-> TRUE, start |-> start, close |-> close,
             body |-> IF NextNonBlank(lines, close + 1) # 0
                      THEN NextNonBlank(lines, close + 1) ELSE Len(lines)]
    IN  IF lines = <<>> \/ ~IsDelimiter(lines[1]) \/ j = 0 THEN none
        ELSE IF c # 0 THEN At(j, c)
        ELSE IF j >= 3 /\ j < Len(lines) /\ IsDelimiter(lines[j]) THEN At(j - 1, j)
        ELSE none

\* yaml.safe_load on the lines of the block: "none" for an empty block, "dict"
\* for key/value lines, "str" for plain text, "error" for a mix of the two
SafeLoad(block) ==
    LET text == {block[i] : i \in DOMAIN block} \ {"", "  "}
    IN  IF text = {} THEN "none"
        ELSE IF text = {"key: v"} THEN "dict"
        ELSE IF text = {"Body"} THEN "str"
        ELSE "error"

\* _extract_frontmatter: what was parsed, the text of the block and the body
ExtractFrontmatterText(lines) ==
    LET m == MatchFrontmatter(lines)
        block == SubSeq(lines, m.start, m.close - 1)
    IN  IF ~m.matched \/ SafeLoad(block) = "error"
        THEN [kind |-> "extract", matched |-> m.matched, frontmatter |-> "none",
              block |-> <<>>, body |-> lines]
        ELSE [kind |-> "extract", matched |-> TRUE, frontmatter |-> SafeLoad(block),
              block |-> block, body |-> SubSeq(lines, m.body, Len(lines))]

InitExtract ==
    /\ \E n \in 0..MaxDocLines : \E lines \in [1..n -> DocLines] :
          input = [fn |-> "extract", lines |-> lines]
    /\ pc = "start"
    /\ Idle

\* self._extract_frontmatter(content)
ApplyExtractFrontmatter ==
    /\ pc = "start" /\ input.fn = "extract"
    /\ result' = ExtractFrontmatterText(input.lines)
    /\ pc' = "done"
    /\ UNCHANGED <<input, scores, findings, recommendations, errors, warnings, info,
                   issues>>

NextExtract == ApplyExtractFrontmatter

SpecExtract == InitExtract /\ [][NextExtract]_vars

(***************************************************************************)
(* Each program run a second time, in a new process, on the input of the  *)
(* first run: the state the first run left is replaced by what the second *)
(* leaves.                                                                 *)
(***************************************************************************)
InitTwice ==
    \/ InitAudit
    \/ InitValidate
    \/ InitScan /\ input.fn = "scan"

AuditAgain == pc # "start" /\ input.fn = "audit" /\ AuditEffect

ValidateAgain == pc # "start" /\ input.fn = "validate" /\ ValidateEffect

ScanAgain == pc # "start" /\ input.fn = "scan" /\ ScanEffect

NextTwice == Audit \/ Validate \/ Scan \/ AuditAgain \/ ValidateAgain \/ ScanAgain

SpecTwice == InitTwice /\ [][NextTwice]_vars

(***************************************************************************)
(* init_agent.py: create_agent on a file system.  A name is the sequence   *)
(* of its characters; the file system is the set of directories and the    *)
(* documents by directory and file stem.                                   *)
(***************************************************************************)
MaxCalls == 3

Letters == {"a", "b", "A", "B"}
Digits == {"1"}

\* str.lower() and str.upper() on one character
LowerChar(c) == CASE c = "A" -> "a" [] c = "B" -> "b" [] OTHER -> c
UpperChar(c) == CASE c = "a" -> "A" [] c = "b" -> "B" [] OTHER -> c

\* s.replace(old, new) for single characters, and s.replace(old, '')
ReplaceChar(s, old, new) == [i \in DOMAIN s |-> IF s[i] = old THEN new ELSE s[i]]
RemoveChar(s, old) == SelectSeq(s, LAMBDA c : c # old)
\* s.lower()
LowerStr(s) == [i \in DOMAIN s |-> LowerChar(s[i])]
\* s.isalnum(): not empty and letters and digits only
IsAlnum(s) == s # <<>> /\ \A i \in DOMAIN s : s[i] \in Letters \cup Digits
\* s.title(): a letter that does not follow a letter in upper case, the other
\* letters in lower case
TitleStr(s) ==
    [i \in DOMAIN s |->
        IF i = 1 \/ s[i - 1] \notin Letters THEN UpperChar(s[i]) ELSE LowerChar(s[i])]

\* name.replace('-', '').replace('_', '').isalnum()
NameIsAlphanumeric(name) == IsAlnum(RemoveChar(RemoveChar(name, "-"), "_"))
\* name.replace('_', '-').lower()
NormalizedName(name) == LowerStr(ReplaceChar(name, "_", "-"))
\* name.startswith('-') or name.endswith('-') or '--' in name
InvalidNameFormat(name) ==
    \/ name[1] = "-" \/ name[Len(name)] = "-"
    \/ \E i \in 1..(Len(name) - 1) : name[i] = "-" /\ name[i + 1] = "-"

\* AGENT_TEMPLATE.format(...): the text of a new document, by what is filled in
TemplateContent(name, mode) ==
    [agent_name |-> name,
     agent_title |-> TitleStr(ReplaceChar(name, "-", " ")) \o <<" ", "A", "g", "e", "n", "t">>,
     agent_role |-> ReplaceChar(name, "-", " "),
     mode |-> mode]

\* a document that was not made from the template
UserDocument == [agent_name |-> <<>>, agent_title |-> <<>>, agent_role |-> <<>>,
                 mode |-> "edited"]

\* Path(path) / f"{name}.md"
AgentPath(path, name) == <<path, name>>

FileSystem(dirs, files) == [dirs |-> dirs, files |-> files]

\* a faulty create_agent that writes the template over a document that is
\* there; C25 tells it from the code's
CreateAgentOverwriting(fs, name, path, mode) ==
    IF ~NameIsAlphanumeric(name) THEN [returned |-> FALSE, fs |-> fs, wrote |-> FALSE]
    ELSE LET normal == NormalizedName(name)
             agent_path == AgentPath(path, normal)
         IN  IF InvalidNameFormat(normal)
             THEN [returned |-> FALSE, fs |-> fs, wrote |-> FALSE]
             ELSE [returned |-> TRUE,
                   fs |-> FileSystem(fs.dirs \cup {path},
                                     (agent_path :> TemplateContent(normal, mode))
                                         @@ fs.files),
                   wrote |-> TRUE]

\* create_agent(name, path, mode): what it returns, the file system it leaves
\* and whether it wrote the file
CreateAgent(fs, name, path, mode) ==
    IF ~NameIsAlphanumeric(name) THEN [returned |-> FALSE, fs |-> fs, wrote |-> FALSE]
    ELSE LET normal == NormalizedName(name)
             agent_path == AgentPath(path, normal)
         IN  IF InvalidNameFormat(normal)
             THEN [returned |-> FALSE, fs |-> fs, wrote |-> FALSE]
             ELSE IF agent_path \in DOMAIN fs.files           \* agent_path.exists()
             THEN [returned |-> FALSE, fs |-> fs, wrote |-> FALSE]
             ELSE [returned |-> TRUE,
                   fs |-> FileSystem(fs.dirs \cup {path},      \* parent.mkdir
                                     (agent_path :> TemplateContent(normal, mode))
                                         @@ fs.files),         \* write_text
                   wrote |-> TRUE]

AgentNames ==
    { <<"a">>, <<"A">>, <<"a", "_", "B">>, <<"a", "-", "b">>, <<"1", "a">>,
      <<"-", "a">>, <<"a", "_", "_", "b">>, <<"a", ".", "b">>, <<"_">>, <<>> }
AgentDirs == {"agent", "new"}
AgentModes == {"all", "subagent"}

\* the calls made so far, the last one and what it returned, the file system
\* and, for each path, how often create_agent wrote it
CreateState(calls, name, path, mode, returned, fs, writes) ==
    [kind |-> "create", calls |-> calls, name |-> name, path |-> path, mode |-> mode,
     returned |-> returned, fs |-> fs, writes |-> writes]

InitCreate ==
    /\ input = [fn |-> "create"]
    /\ pc = "start"
    /\ scores = <<>> /\ findings = <<>> /\ recommendations = <<>>
    /\ errors = <<>> /\ warnings = <<>> /\ info = <<>> /\ issues = <<>>
    /\ \E there \in SUBSET {AgentPath("agent", <<"a">>), AgentPath("agent", <<"a", "-", "b">>)} :
          result = CreateState(0, <<>>, "", "", FALSE,
                               FileSystem({"agent"}, [p \in there |-> UserDocument]),
                               <<>>)

\* one more call of create_agent
ApplyCreateAgent ==
    /\ input.fn = "create" /\ result.calls < MaxCalls
    /\ \E name \in AgentNames, path \in AgentDirs, mode \in AgentModes :
         \E run \in {CreateAgent(result.fs, name, path, mode)} :
           LET agent_path == AgentPath(path, NormalizedName(name))
               before == IF agent_path \in DOMAIN result.writes
                         THEN result.writes[agent_path] ELSE 0
           IN  result' = CreateState(result.calls + 1, name, path, mode, run.returned,
                                     run.fs,
                                     IF run.wrote
                                     THEN (agent_path :> before + 1) @@ result.writes
                                     ELSE result.writes)
    /\ pc' = "done"
    /\ UNCHANGED <<input, scores, findings, recommendations, errors, warnings, info,
                   issues>>

NextCreate == ApplyCreateAgent

SpecCreate == InitCreate /\ [][NextCreate]_vars

(***************************************************************************)
(* Properties of the audit.                                                *)
(***************************************************************************)

\* C1: whenever audit() returns a scored result, exactly the five categories
\* carry a score, every score lies in [0.0, 5.0], and overall_score is the
\* mean of the five scores rounded to two decimals (a nearest hundredth).
C1_ScoresBoundedAndAveraged ==
    (input.fn = "audit" /\ result.kind = "audit") =>
        /\ DOMAIN result.scores = Categories
        /\ Cardinality(DOMAIN result.scores) = 5
        /\ \A c \in Categories : 0 <= result.scores[c] /\ result.scores[c] <= 50
        /\ LET total == result.scores["frontmatter_quality"]
                        + result.scores["tool_safety"]
                        + result.scores["instruction_quality"]
                        + result.scores["security"]
                        + result.scores["documentation"]
               diff == 5 * result.overall_score - 10 * total
           IN  -5 <= 2 * diff /\ 2 * diff <= 5

\* a scored result in which deductions fired in more than one category
C1_Witness ==
    /\ input.fn = "audit" /\ result.kind = "audit"
    /\ result.scores["frontmatter_quality"] < 50
    /\ result.scores["security"] < 50
    /\ result.scores["tool_safety"] = 50
    /\ result.overall_score % 10 # 0

\* the bash permission value of a permission mapping ({} when there is none)
BashRules(permission) == Get(permission, "bash", EmptyDict)

\* the bash permission is a mapping with a deny entry and '*' set to ask
DenyAndAskDefault(permission) ==
    /\ IsDict(BashRules(permission))
    /\ \E p \in DOMAIN BashRules(permission).m : EqStr(BashRules(permission).m[p], "deny")
    /\ "*" \in DOMAIN BashRules(permission).m
    /\ EqStr(BashRules(permission).m["*"], "ask")

\* C2: the risk tier of a tools mapping and a permission mapping is, in this
\* order: HIGH if bash is enabled and there are no bash permission rules or
\* they do not have both a deny entry and '*' = ask; MEDIUM if bash is enabled
\* with both, or if write or edit is enabled without bash; LOW otherwise.
C2_RiskCascade ==
    (input.fn = "risk" /\ pc = "done") =>
        LET bash == ToolOn(input.tools, "bash")
            norules == "bash" \notin DOMAIN input.permission.m
            both == DenyAndAskDefault(input.permission)
        IN  result.level =
                IF bash /\ (norules \/ ~both) THEN "HIGH"
                ELSE IF (bash /\ both)
                        \/ (~bash /\ (ToolOn(input.tools, "write")
                                        \/ ToolOn(input.tools, "edit")))
                THEN "MEDIUM"
                ELSE "LOW"

\* bash enabled with a deny entry and an ask default: MEDIUM
C2_Witness ==
    /\ input.fn = "risk" /\ pc = "done"
    /\ ToolOn(input.tools, "bash")
    /\ DenyAndAskDefault(input.permission)
    /\ result.level = "MEDIUM"

\* the document of C3: tools {read: true, write: true}, no permission block
ReadWriteDoc ==
    /\ input.fn = "audit"
    /\ IsDict(input.doc.fm)
    /\ "tools" \in DOMAIN input.doc.fm.m
    /\ input.doc.fm.m["tools"] = ToolMap({"read", "write"}, {})
    /\ "permission" \notin DOMAIN input.doc.fm.m

\* C3 as stated: a document with tools {read: true, write: true}, bash not
\* enabled and no permission block is given risk tier LOW by audit().
C3_ReadWriteIsLow ==
    (ReadWriteDoc /\ result.kind = "audit") => result.risk_level = "LOW"

\* C3 amended: such a document is given risk tier MEDIUM, and the
\* write-without-read deduction does not fire.
C3_ReadWriteIsMedium ==
    (ReadWriteDoc /\ result.kind = "audit") =>
        /\ result.risk_level = "MEDIUM"
        /\ <<"write enabled without read", "">> \notin Range(result.findings)
        /\ result.scores["tool_safety"] = 50

C3_Witness == ReadWriteDoc /\ result.kind = "audit" /\ result.risk_level = "MEDIUM"

\* a security call on a document that enables bash and has no permission block
BashNoPermissionCall ==
    /\ input.fn = "security" /\ pc = "done"
    /\ IsDict(Get(input.frontmatter, "tools", EmptyDict))
    /\ ToolOn(Get(input.frontmatter, "tools", EmptyDict), "bash")
    /\ "permission" \notin DOMAIN input.frontmatter.m

\* C4 as stated: with bash enabled and no permission block the security score
\* is at most 3.5 whatever the body.
C4_SecurityAtMost35 == BashNoPermissionCall => scores["security"] <= 35

\* C4 amended: with bash enabled and no permission block, the security score
\* is at most 3.5 when the body holds fewer than 3 of the 7 safety keywords
\* (and at most 4.5 whatever the body).
C4_SecurityAtMost35FewKeywords ==
    BashNoPermissionCall =>
        /\ scores["security"] <= 45
        /\ Cardinality(input.body.words \cap Range(SafetyKeywords)) < 3
              => scores["security"] <= 35

\* fewer than 3 safety keywords, a score of at most 3.5
C4_Witness ==
    /\ BashNoPermissionCall
    /\ Cardinality(input.body.words \cap Range(SafetyKeywords)) = 2
    /\ scores["security"] = 30

\* C9: each of the five rules completes without raising on every metadata
\* mapping and body, and records exactly one score, for its own category.
C9_RulesAreTotal ==
    (input.fn \in Categories) =>
        /\ pc # "raised"
        /\ pc = "done" => DOMAIN scores = {input.fn}

(***************************************************************************)
(* Properties of the validation.                                           *)
(***************************************************************************)

\* C5: when validate() returns, the returned boolean is true, and
\* results['is_valid'] is true, and the exit code is 0, if and only if the
\* errors list is empty; warnings and info do not enter the verdict, and the
\* returned boolean equals results['is_valid'].
C5_ValidIffNoErrors ==
    (input.fn = "validate" /\ pc = "done") =>
        /\ result.is_valid <=> (errors = <<>>)
        /\ result.results.is_valid <=> (errors = <<>>)
        /\ (result.exit_code = 0) <=> (errors = <<>>)
        /\ result.is_valid = result.results.is_valid
        /\ result.results.errors = errors
        /\ result.results.warnings = warnings
        /\ result.results.info = info

\* a valid document that carries warnings and info
C5_Witness ==
    /\ input.fn = "validate" /\ pc = "done"
    /\ errors = <<>> /\ warnings # <<>> /\ info # <<>>
    /\ result.is_valid /\ result.exit_code = 0

\* C7: for every document whose metadata block is extracted, whatever the
\* values of its fields, validate() does not raise: it returns a result.
C7_ValidateNeverThrows ==
    (/\ input.fn = "validate"
     /\ input.doc.exists
     /\ ExtractFrontmatter(input.doc) # NoneV
     /\ pc # "start") =>
        /\ pc = "done"
        /\ result.kind = "validate"

\* the document does not begin with a delimited metadata block, or the block
\* does not parse into a key/value mapping
Malformed(doc) ==
    /\ doc.exists
    /\ \/ ~doc.delimited
       \/ ~doc.yaml_ok
       \/ ~IsDict(doc.fm)

\* C8: on such a document audit() returns a result carrying 'error' and no
\* scores, and validate() returns is_valid false with at least one error;
\* neither runs a rule, neither raises.
C8_MalformedFailsCleanly ==
    (Malformed(input.doc) /\ pc # "start") =>
        /\ pc = "done"
        /\ input.fn = "audit" =>
              /\ result.kind = "error"
              /\ scores = <<>> /\ findings = <<>> /\ recommendations = <<>>
        /\ input.fn = "validate" =>
              /\ result.kind = "validate"
              /\ ~result.is_valid
              /\ errors # <<>>

(***************************************************************************)
(* Properties of the scan.                                                 *)
(***************************************************************************)

\* the report holds no issue of severity 'error'
NoErrorIssue == \A i \in DOMAIN issues : issues[i].severity # "error"

\* C6: whatever issues the report holds, is_consistent is true exactly when
\* none of them has severity 'error'; a scan of a root with SKILL.md that
\* ends has exit code 0 exactly then, and a scan that does not end leaves an
\* error in the report.
C6_ConsistentIffNoError ==
    /\ IsConsistent(issues) <=> NoErrorIssue
    /\ (pc = "done" /\ result.scanned) =>
          /\ (result.exit_code = 0) <=> NoErrorIssue
          /\ (result.exit_code = 0) <=> IsConsistent(issues)
    /\ pc = "raised" => ~NoErrorIssue

\* a scan that ends with warnings only and exit code 0
C6_Witness ==
    /\ input.fn = "scan" /\ pc = "done" /\ result.scanned
    /\ \E i \in DOMAIN issues : issues[i].severity = "warning"
    /\ NoErrorIssue
    /\ result.exit_code = 0

\* the files of the scanned tree that cannot be read
Unreadable(tree) == {i \in DOMAIN tree.files : ~tree.files[i].readable}

\* C10: when a file under the root cannot be read, the scan records one
\* error issue for that file and returns a report: it does not abort.
C10_UnreadableFileTolerated ==
    (/\ input.fn = "scan"
     /\ input.tree.exists
     /\ SkillIndex(input.tree) # 0
     /\ Unreadable(input.tree) # {}
     /\ pc # "start") =>
        /\ pc = "done"
        /\ \A i \in Unreadable(input.tree) :
              Cardinality({j \in DOMAIN issues :
                              /\ issues[j].file = input.tree.files[i].path
                              /\ issues[j].severity = "error"
                              /\ issues[j].message.text = "Could not read file"}) = 1

\* the files of the model's trees by path, in byte order
PathOrder == << <<"SKILL.md">>, <<"b.md">>, <<"docs", "guide.md">> >>
PathRank(path) == CHOOSE r \in DOMAIN PathOrder : PathOrder[r] = path

\* issue a may stand before issue b in a list ordered by file path, then by
\* line number
InOrder(a, b) ==
    \/ PathRank(a.file) < PathRank(b.file)
    \/ a.file = b.file /\ a.line <= b.line

\* C11: the issue list check_all() returns is ordered by file path, then by
\* line number, whatever the order the files were enumerated in.
C11_IssuesOrdered ==
    (input.fn = "scan" /\ pc = "done" /\ result.scanned) =>
        \A i, j \in DOMAIN issues : i < j => InOrder(issues[i], issues[j])

\* C12: a second run of audit, validate or the scan on the unchanged input
\* leaves the findings, issues, messages, scores and verdict of the first.
C12_SecondRunIdentical ==
    [][(pc # "start") =>
          /\ pc' = pc
          /\ result' = result
          /\ scores' = scores /\ findings' = findings
          /\ recommendations' = recommendations
          /\ errors' = errors /\ warnings' = warnings /\ info' = info
          /\ issues' = issues]_vars

RECURSIVE FencedYaml(_, _, _)
\* the lines from i on that lie inside a fenced YAML block, reading the fences
\* as Markdown pairs them: a fence line opens a block (opener is its line, 0
\* outside a block), the next bare ``` closes it
FencedYaml(lines, i, opener) ==
    IF i > Len(lines) THEN {}
    ELSE IF opener = 0
    THEN FencedYaml(lines, i + 1, IF lines[i].k = "fence" THEN i ELSE 0)
    ELSE IF lines[i].k = "fence" /\ lines[i].a = "" THEN FencedYaml(lines, i + 1, 0)
    ELSE (IF lines[opener].a \in {"yaml", "yml"} THEN {i} ELSE {})
         \cup FencedYaml(lines, i + 1, opener)

\* the lines of a file where the field stands at the start of a line inside a
\* fenced YAML block
Occurrences(f, field) ==
    {k \in FencedYaml(f.lines, 1, 0) : f.lines[k].k = "field" /\ f.lines[k].a = field}

\* the remediation of each deprecated field
Remediation(field) ==
    CASE field = "name" -> "Remove 'name:' - agent name comes from the filename"
      [] field = "skills" ->
           "Remove 'skills:' - skills are loaded at runtime via the skill tool. Document when to load skills in agent instructions instead."
      [] field = "permissions" ->
           "Rename to 'tools:' for tool enablement, or 'permission:' for access control patterns"

\* the issues of the report that name the deprecated field in the file
DeprecatedFieldIssues(path, field) ==
    {j \in DOMAIN issues :
        /\ issues[j].file = path
        /\ issues[j].severity = "error"
        /\ issues[j].message.text = "Deprecated field found in YAML example"
        /\ issues[j].message.arg = field
        /\ issues[j].suggestion = Remediation(field)}

\* C13: after a scan, for every readable file and every deprecated field, the
\* report holds one error issue "Deprecated field '<field>:'" with the field's
\* own remediation (for skills: the one that mentions the runtime) per
\* occurrence of the field at the start of a line, after optional
\* indentation, inside a fenced YAML block of the file.
C13_DeprecatedFieldsReported ==
    (input.fn = "scan" /\ pc # "start" /\ input.tree.exists /\ SkillIndex(input.tree) # 0) =>
        \A i \in DOMAIN input.tree.files : \A field \in {"name", "skills", "permissions"} :
            input.tree.files[i].readable =>
                Cardinality(DeprecatedFieldIssues(input.tree.files[i].path, field))
                    = Cardinality(Occurrences(input.tree.files[i], field))

\* a scanned file with the same field twice in one block and skills: in another
C13_Witness ==
    /\ input.fn = "scan" /\ pc = "done"
    /\ \E i \in DOMAIN input.tree.files :
          /\ Cardinality(Occurrences(input.tree.files[i], "name")) = 2
          /\ Cardinality(DeprecatedFieldIssues(input.tree.files[i].path, "name")) = 2
          /\ Cardinality(DeprecatedFieldIssues(input.tree.files[i].path, "skills")) = 1

\* the lines of a file of the tree that hold a link to a path that is neither
\* a URL nor an anchor, stays inside the tree and names nothing that exists
DanglingLinks(tree, f) ==
    {k \in DOMAIN f.lines :
        /\ f.lines[k].k = "link"
        /\ f.lines[k].a = "path"
        /\ Resolve(Parent(f.path), f.lines[k].p) # <<"..">>
        /\ Resolve(Parent(f.path), f.lines[k].p) \notin ExistingPaths(tree)}

\* C14: after a scan, however the root was given, every dangling link of
\* every file has exactly one warning issue that cites the file's path
\* relative to the root and the line of the link.
C14_DanglingLinksWarned ==
    (input.fn = "scan" /\ pc = "done" /\ result.scanned) =>
        \A i \in DOMAIN input.tree.files :
            \A k \in DanglingLinks(input.tree, input.tree.files[i]) :
                Cardinality({j \in DOMAIN issues :
                                /\ issues[j].severity = "warning"
                                /\ issues[j].message.text = "Broken link"
                                /\ issues[j].file = input.tree.files[i].path
                                /\ issues[j].line = k}) = 1

\* the lines of the index document with a numbered heading of level 2 to 4
\* whose number stands on an earlier heading of the same level
RepeatedHeadings(lines) ==
    {k \in DOMAIN lines :
        /\ lines[k].k = "heading" /\ lines[k].a # "" /\ lines[k].n \in 2..4
        /\ \E h \in 1..(k - 1) :
              /\ lines[h].k = "heading"
              /\ lines[h].n = lines[k].n
              /\ lines[h].a = lines[k].a}

\* the first line with a heading of the level and number of line k
FirstOccurrence(lines, k) ==
    CHOOSE h \in 1..k :
        /\ lines[h].k = "heading" /\ lines[h].n = lines[k].n /\ lines[h].a = lines[k].a
        /\ \A g \in 1..(h - 1) :
              ~(lines[g].k = "heading" /\ lines[g].n = lines[k].n /\ lines[g].a = lines[k].a)

\* the duplicate-number issues of the report
DuplicateIssues ==
    {j \in DOMAIN issues :
        issues[j].message.text = "Duplicate section number (first seen at line)"}

\* C15: after a scan, the duplicate-number issues are exactly one error per
\* numbered heading of SKILL.md, levels 2 to 4, whose number already stood on
\* an earlier heading of the same level (k occurrences: k-1 errors); each
\* cites its own line and names the line of the first occurrence.  A number
\* used at two different levels yields none.
C15_DuplicateNumbers ==
    (input.fn = "scan" /\ pc = "done" /\ result.scanned) =>
        LET lines == input.tree.files[SkillIndex(input.tree)].lines
        IN  /\ Cardinality(DuplicateIssues) = Cardinality(RepeatedHeadings(lines))
            /\ \A k \in RepeatedHeadings(lines) :
                  Cardinality({j \in DuplicateIssues :
                                  /\ issues[j].severity = "error"
                                  /\ issues[j].file = <<"SKILL.md">>
                                  /\ issues[j].line = k
                                  /\ issues[j].message.arg = lines[k].a
                                  /\ issues[j].message.cites = FirstOccurrence(lines, k)}) = 1

\* a number three times at level 2 and once at level 3: two errors
C15_Witness ==
    /\ input.fn = "scan" /\ pc = "done" /\ result.scanned
    /\ Cardinality(DuplicateIssues) = 2
    /\ \A j \in DuplicateIssues : issues[j].message.cites = 1 /\ issues[j].line \in {4, 7}

\* the document begins with a block --- / key: value lines / --- and has
\* text after the closing delimiter line; close is that line
WellFormedAt(lines, close) ==
    /\ close \in 3..(Len(lines) - 1)
    /\ lines[1] = "---" /\ lines[close] = "---"
    /\ \A i \in 2..(close - 1) : lines[i] = "key: v"

\* C16: for a well-formed document the extraction returns as body exactly the
\* lines after the end-delimiter line, leading and trailing blank lines
\* unchanged, so that delimiter, block, delimiter and body give the document
\* back.
C16_BodyVerbatim ==
    (input.fn = "extract" /\ pc = "done") =>
        \A close \in DOMAIN input.lines :
            WellFormedAt(input.lines, close) =>
                /\ result.frontmatter = "dict"
                /\ result.body = SubSeq(input.lines, close + 1, Len(input.lines))
                /\ <<"---">> \o result.block \o <<"---">> \o result.body = input.lines

\* the deductions named in the five rules: the category that is charged, the
\* amount in tenths and the recommendation that goes with the finding
Deduction(cat, d, r) == [cat |-> cat, d |-> d, r |-> r]

Deductions ==
    [f \in {"Missing description", "Description is too short",
            "Description missing <example> blocks",
            "Description missing trigger keywords", "Invalid mode: ",
            "Many tools enabled", "bash enabled but no permission patterns defined",
            "No deny rules for dangerous bash commands",
            "No default (*) bash permission rule", "write enabled without read",
            "edit enabled without read", "Few sections in instructions",
            "Few code examples", "No workflow section found",
            "No responsibilities section found", "Instructions are quite short",
            "bash enabled but few safety keywords in instructions",
            "Few deny patterns for bash",
            "write enabled but no overwrite safety mentioned",
            "No guidance on handling sensitive data", "Missing ",
            "Limitations not clearly stated"} |->
     CASE f = "Missing description" ->
            Deduction("frontmatter_quality", 20, "Add a description with triggers and examples")
       [] f = "Description is too short" ->
            Deduction("frontmatter_quality", 5,
                      "Add more detail to description including trigger conditions")
       [] f = "Description missing <example> blocks" ->
            Deduction("frontmatter_quality", 5, "Add <example> blocks showing typical usage")
       [] f = "Description missing trigger keywords" ->
            Deduction("frontmatter_quality", 3,
                      "Add 'Use when...' to clarify when to invoke agent")
       [] f = "Invalid mode: " ->
            Deduction("frontmatter_quality", 5, "Mode must be 'primary', 'subagent', or 'all'")
       [] f = "Many tools enabled" ->
            Deduction("tool_safety", 10,
                      "Review if all tools are necessary - apply least privilege")
       [] f = "bash enabled but no permission patterns defined" ->
            Deduction("tool_safety", 15, "Add permission patterns for bash commands")
       [] f = "No deny rules for dangerous bash commands" ->
            Deduction("tool_safety", 5, "Add deny rules for rm -rf, dd, mkfs, etc.")
       [] f = "No default (*) bash permission rule" ->
            Deduction("tool_safety", 3, "Add '*': ask as default bash permission")
       [] f = "write enabled without read" ->
            Deduction("tool_safety", 5, "Add read tool (agent should read before writing)")
       [] f = "edit enabled without read" ->
            Deduction("tool_safety", 5, "Add read tool (agent must read before editing)")
       [] f = "Few sections in instructions" ->
            Deduction("instruction_quality", 10, "Organize instructions with clear ## headings")
       [] f = "Few code examples" ->
            Deduction("instruction_quality", 5, "Add more code/command examples")
       [] f = "No workflow section found" ->
            Deduction("instruction_quality", 5,
                      "Add a Workflow section with step-by-step process")
       [] f = "No responsibilities section found" ->
            Deduction("instruction_quality", 3, "Add Core Responsibilities section")
       [] f = "Instructions are quite short" ->
            Deduction("instruction_quality", 5, "Add more comprehensive guidance and examples")
       [] f = "bash enabled but few safety keywords in instructions" ->
            Deduction("security", 15,
                      "Add safety protocols: confirmation prompts, backup procedures")
       [] f = "Few deny patterns for bash" ->
            Deduction("security", 5, "Add more deny patterns for dangerous commands")
       [] f = "write enabled but no overwrite safety mentioned" ->
            Deduction("security", 5, "Add guidance on checking file existence before writing")
       [] f = "No guidance on handling sensitive data" ->
            Deduction("security", 3, "Add guidelines for handling secrets and credentials")
       [] f = "Missing " -> Deduction("documentation", 5, "Add section")
       [] f = "Limitations not clearly stated" ->
            Deduction("documentation", 3, "Document what agent CANNOT do")]

\* the recommendation that belongs to a finding; for a missing documentation
\* section it names the section
PairedRecommendation(finding) ==
    IF finding[1] = "Missing " THEN finding[2] ELSE Deductions[finding[1]].r

\* the amounts of the findings recorded against a category, in order
Charged(cat) ==
    [i \in DOMAIN findings |->
        IF Deductions[findings[i][1]].cat = cat THEN Deductions[findings[i][1]].d ELSE 0]

\* C17: after any audit the findings and the recommendations have the same
\* length and the i-th recommendation is the one that belongs to the i-th
\* finding; every finding is one of the named deductions, and each category
\* score is 5.0 minus the amounts of the findings recorded against the
\* category, never above 5.0 and never below 0.0.
C17_FindingsPairedWithDeductions ==
    (input.fn = "audit" /\ pc # "start") =>
        /\ Len(findings) = Len(recommendations)
        /\ \A i \in DOMAIN findings :
              /\ findings[i][1] \in DOMAIN Deductions
              /\ recommendations[i] = PairedRecommendation(findings[i])
        /\ \A cat \in DOMAIN scores :
              /\ scores[cat] = Max(0, 50 - SumSeq(Charged(cat)))
              /\ 0 <= scores[cat] /\ scores[cat] <= 50

\* a completed audit in which one rule fired five deductions and another
\* at least two
C17_Witness ==
    /\ input.fn = "audit" /\ pc = "done" /\ result.kind = "audit"
    /\ scores["documentation"] = 27
    /\ scores["tool_safety"] <= 40
    /\ Len(findings) >= 8

\* a tool_safety call on a capability map and a permission map
ToolSafetyCall ==
    /\ input.fn = "tool_safety" /\ pc # "start"
    /\ IsDict(input.tools) /\ IsDict(input.permission)

\* the capabilities of the map that are enabled
EnabledTools(tools) == {k \in DOMAIN tools.m : Truthy(tools.m[k])}

\* the bash permission rules hold a deny entry, a '*' entry
RulesDeny(rules) == IF IsDict(rules) THEN HasDeny(rules) ELSE EqStr(rules, "deny")
RulesWildcard(rules) == IsDict(rules) /\ "*" \in DOMAIN rules.m

\* the deductions of the tool_safety formula, in tenths; with mappingOnly the
\* deny and wildcard deductions are taken only from a bash permission that is
\* a mapping, and only the capabilities set to true count towards the 9
ToolSafetyDeductions(tools, permission, mappingOnly) ==
    LET on == EnabledTools(tools)
        rules == Get(permission, "bash", NoneV)
        counted == ~mappingOnly \/ IsDict(rules)
        many == IF mappingOnly THEN EnabledCount(tools) ELSE Cardinality(on)
    IN  (IF many >= 9 THEN 10 ELSE 0)
      + (IF "bash" \notin on THEN 0
         ELSE IF ~Truthy(rules) THEN 15
         ELSE (IF counted /\ ~RulesDeny(rules) THEN 5 ELSE 0)
            + (IF counted /\ ~RulesWildcard(rules) THEN 3 ELSE 0))
      + (IF "write" \in on /\ "read" \notin on THEN 5 ELSE 0)
      + (IF "edit" \in on /\ "read" \notin on THEN 5 ELSE 0)

\* C18 as stated: the tool_safety score is 5.0 minus 1.0 for at least 9 enabled
\* capabilities; with bash enabled, 1.5 when no bash permission rule exists,
\* else 0.5 when the bash rules hold no deny entry and 0.3 when they hold no
\* '*' entry; 0.5 for write without read; 0.5 for edit without read.
C18_ToolSafetyFormula ==
    ToolSafetyCall =>
        /\ pc = "done"
        /\ scores["tool_safety"] = 50 - ToolSafetyDeductions(input.tools, input.permission, FALSE)

\* C18 amended: the same formula, with the deny and wildcard deductions taken
\* only when the bash permission is a mapping from patterns to levels (a bash
\* permission given as one non-empty value deducts nothing), and with the 1.0
\* taken when at least 9 capabilities are set to true (a capability enabled by
\* another truthy value is not counted).
C18_ToolSafetyFormulaForMappings ==
    ToolSafetyCall =>
        /\ pc = "done"
        /\ scores["tool_safety"] = 50 - ToolSafetyDeductions(input.tools, input.permission, TRUE)

\* bash and write enabled without read, the bash permission a single level:
\* only the write deduction is taken
C18_Witness ==
    /\ ToolSafetyCall
    /\ EnabledTools(input.tools) = {"bash", "write"}
    /\ EqStr(Get(input.permission, "bash", NoneV), "ask")
    /\ scores["tool_safety"] = 45

\* at least 9 capabilities and a bash mapping without deny and without '*'
C18_WitnessMapping ==
    /\ ToolSafetyCall
    /\ Cardinality(EnabledTools(input.tools)) >= 9
    /\ IsDict(Get(input.permission, "bash", NoneV))
    /\ scores["tool_safety"] = 32

\* a security call on a metadata mapping in which tools and permission, where
\* present, are mappings
SecurityCall ==
    /\ input.fn = "security" /\ pc # "start"
    /\ IsDict(input.frontmatter)
    /\ IsDict(Get(input.frontmatter, "tools", EmptyDict))
    /\ IsDict(Get(input.frontmatter, "permission", EmptyDict))

\* the entries of a permission map that are set to deny: top-level levels and
\* the patterns of the entries that are mappings
DenyEntries(permission) ==
    {<<k, "">> : k \in {x \in DOMAIN permission.m : EqStr(permission.m[x], "deny")}}
    \cup UNION {{<<k, p>> : p \in {y \in DOMAIN permission.m[k].m :
                                      EqStr(permission.m[k].m[y], "deny")}} :
                k \in {x \in DOMAIN permission.m : IsDict(permission.m[x])}}

\* the patterns of the bash permission that are set to deny; no bash
\* permission counts as a mapping without patterns
BashDenyPatterns(permission) ==
    LET rules == Get(permission, "bash", EmptyDict)
    IN  {p \in DOMAIN rules.m : EqStr(rules.m[p], "deny")}

\* the deductions of the security formula, in tenths, given whether fewer
\* than 2 deny entries count against the document
SecurityDeductions(frontmatter, body, fewDeny) ==
    LET tools == Get(frontmatter, "tools", EmptyDict)
        on == EnabledTools(tools)
    IN  (IF "bash" \in on
         THEN (IF Cardinality(body.words \cap Range(SafetyKeywords)) < 3 THEN 15 ELSE 0)
            + (IF fewDeny THEN 5 ELSE 0)
         ELSE 0)
      + (IF "write" \in on /\ body.words \cap {"overwrite", "exist"} = {} THEN 5 ELSE 0)
      + (IF ("read" \in on \/ "bash" \in on)
            /\ body.words \cap {"secret", "password", "credential"} = {} THEN 3 ELSE 0)

\* C19 as stated: the security score is 5.0 minus, with bash enabled, 1.5 for
\* fewer than 3 of the 7 safety keywords in the body and 0.5 for fewer than 2
\* permission entries set to deny; with write enabled, 0.5 when neither
\* "overwrite" nor "exist" occurs; with read or bash enabled, 0.3 when none of
\* "secret", "password", "credential" occurs.
C19_SecurityFormula ==
    SecurityCall =>
        /\ pc = "done"
        /\ scores["security"] =
              50 - SecurityDeductions(input.frontmatter, input.body,
                    Cardinality(DenyEntries(Get(input.frontmatter, "permission", EmptyDict))) < 2)

\* C19 amended: the same formula, with the 0.5 taken when the bash permission
\* is absent or is a mapping in which fewer than 2 patterns are set to deny;
\* deny entries of other permissions do not count, and a bash permission that
\* is not a mapping deducts nothing.
C19_SecurityFormulaBashPatterns ==
    SecurityCall =>
        /\ pc = "done"
        /\ scores["security"] =
              50 - SecurityDeductions(input.frontmatter, input.body,
                    LET permission == Get(input.frontmatter, "permission", EmptyDict)
                    IN  /\ IsDict(Get(permission, "bash", EmptyDict))
                        /\ Cardinality(BashDenyPatterns(permission)) < 2)

\* bash enabled with the bash permission a single level: no deny deduction,
\* the other three deductions taken
C19_Witness ==
    /\ SecurityCall
    /\ EnabledTools(Get(input.frontmatter, "tools", EmptyDict)) = {"bash", "write"}
    /\ EqStr(Get(Get(input.frontmatter, "permission", EmptyDict), "bash", NoneV), "ask")
    /\ scores["security"] = 27

\* the permission map of the input document (NoneV when it has none)
PermissionOf(doc) ==
    IF IsDict(ExtractFrontmatter(doc)) THEN Get(ExtractFrontmatter(doc), "permission", NoneV)
    ELSE NoneV

\* validate() got as far as the permission map of a document that has one:
\* the document's mode, which is checked before, is of a type the check
\* handles
PermissionMapValidated ==
    /\ input.fn = "validate" /\ pc # "start"
    /\ input.doc.exists
    /\ IsDict(PermissionOf(input.doc))
    /\ Hashable(Get(ExtractFrontmatter(input.doc), "mode", NoneV))

IsLevel(v) == IsStr(v) /\ v.s \in {"allow", "ask", "deny"}

\* the patterns of a mapping whose level is not one of the three
BadPatterns(value) == {p \in DOMAIN value.m : ~IsLevel(value.m[p])}

\* the errors recorded against the permission entry under key
EntryErrors(key) ==
    {i \in DOMAIN errors :
        /\ errors[i][1] \in {"Permission has invalid value",
                             "Permission pattern has invalid value",
                             "Permission must be a string or dictionary"}
        /\ errors[i][2] = key}

\* C20: when a permission map is present, validate() records an error for
\* every entry whose value is neither a level (allow, ask, deny) nor a mapping
\* from patterns to levels, one for every pattern whose level is not a level,
\* and none for an entry of valid shape; permission keys outside the
\* recognized set give a warning and no error.
C20_PermissionShapeErrors ==
    PermissionMapValidated =>
        LET permission == PermissionOf(input.doc)
        IN  /\ \A k \in DOMAIN permission.m :
                  Cardinality(EntryErrors(k)) =
                      IF IsDict(permission.m[k])
                      THEN Cardinality(BadPatterns(permission.m[k]))
                      ELSE IF IsLevel(permission.m[k]) THEN 0 ELSE 1
            /\ DOMAIN permission.m \ valid_permission_keys # {}
                  => HasMsg(warnings, "Unusual permission keys")
            /\ ~HasMsg(errors, "Unusual permission keys")
            /\ ~HasMsg(errors, "'permission' must be a dictionary/object")

\* the same statement on the runs in which validate() returns
C20_PermissionShapeErrorsOnReturn ==
    (PermissionMapValidated /\ pc = "done") => C20_PermissionShapeErrors

\* the extracted metadata of the input document, and one of its fields
\* (NoneV when the field is absent)
FieldOf(doc, key) ==
    IF IsDict(ExtractFrontmatter(doc)) THEN Get(ExtractFrontmatter(doc), key, NoneV)
    ELSE NoneV

\* validate() returned on a document with a metadata mapping
OptionalFieldsValidated ==
    /\ input.fn = "validate" /\ pc = "done"
    /\ input.doc.exists /\ IsDict(ExtractFrontmatter(input.doc))

\* a number within [0.0, 1.0]; a positive integer; with boolsCount, true and
\* false are taken for the integers 1 and 0
GoodTemperature(v, boolsCount) ==
    /\ v.t \in {"int", "float"} \/ (boolsCount /\ v.t = "bool")
    /\ 0 <= Tenths(v) /\ Tenths(v) <= 10
GoodMaxSteps(v, boolsCount) ==
    /\ v.t = "int" \/ (boolsCount /\ v.t = "bool")
    /\ v.n >= 1

\* the statement of C21, given whether booleans pass for numbers
OptionalFieldNotes(boolsCount) ==
    LET temp == FieldOf(input.doc, "temperature")
        max_steps == FieldOf(input.doc, "maxSteps")
        hidden == FieldOf(input.doc, "hidden")
        mode == FieldOf(input.doc, "mode")
    IN  /\ (HasMsg(errors, "'temperature' must be a number")
              \/ HasMsg(errors, "'temperature' must be between 0.0 and 1.0"))
            <=> (temp # NoneV /\ ~GoodTemperature(temp, boolsCount))
        /\ (HasMsg(errors, "'maxSteps' must be an integer")
              \/ HasMsg(errors, "'maxSteps' must be at least 1"))
            <=> (max_steps # NoneV /\ ~GoodMaxSteps(max_steps, boolsCount))
        /\ HasMsg(errors, "'hidden' must be true/false (boolean)")
            <=> (hidden # NoneV /\ hidden.t # "bool")
        /\ (IsTrue(hidden) /\ ~EqStr(mode, "subagent"))
            => HasMsg(warnings, "'hidden' is only meaningful for mode: subagent")
        /\ ~HasMsg(errors, "'hidden' is only meaningful for mode: subagent")
        /\ hidden = NoneV
            => ~HasMsg(warnings, "'hidden' is only meaningful for mode: subagent")

\* C21: validate() records an error exactly when temperature is present and
\* is not a number within [0.0, 1.0], when maxSteps is present and is not a
\* positive integer, and when hidden is present and is not a boolean; hidden
\* true with a mode other than subagent gives a warning and no error; absent
\* fields give neither.
C21_OptionalFieldErrors == OptionalFieldsValidated => OptionalFieldNotes(FALSE)

\* the same statement with true and false passing for the numbers 1 and 0
C21_OptionalFieldErrorsBoolsAsNumbers == OptionalFieldsValidated => OptionalFieldNotes(TRUE)

\* validate() got as far as the capability map: the document has a metadata
\* mapping and its mode, which is checked before, is of a type the check
\* handles
ToolsValidated ==
    /\ input.fn = "validate" /\ pc # "start"
    /\ input.doc.exists /\ IsDict(ExtractFrontmatter(input.doc))
    /\ Hashable(FieldOf(input.doc, "mode"))

\* the fixed vocabulary of 11 capability names
Vocabulary ==
    {"bash", "read", "write", "edit", "glob", "grep", "task", "skill", "webfetch",
     "todoread", "todowrite"}

\* the errors that name the capability key
ValueErrors(key) ==
    {i \in DOMAIN errors : errors[i] = <<"Tool must be true/false", key>>}

ToolErrorTexts ==
    {"'tools' must be a dictionary/object", "Invalid tools", "Tool must be true/false"}

C22_WitnessUnknownKey ==
    /\ ToolsValidated /\ pc = "done"
    /\ IsDict(FieldOf(input.doc, "tools"))
    /\ HasMsg(errors, "Invalid tools")

\* _assess_risk_level returned on a capability map that enables bash
RiskWithBash ==
    /\ input.fn = "risk" /\ pc = "done"
    /\ IsDict(input.tools) /\ ToolOn(input.tools, "bash")

\* the bash permission of the call, NoneV when the permission map has none
BashPermissionOf(permission) == Get(permission, "bash", NoneV)

\* C23: with bash enabled _assess_risk_level never returns LOW; it returns
\* MEDIUM only when the bash permission is a mapping with at least one deny
\* value and '*' set to ask, and HIGH in every other case: a missing bash
\* permission, an empty mapping, a scalar bash permission such as deny.
C23_BashNeverLow ==
    RiskWithBash =>
        LET rules == BashPermissionOf(input.permission)
            guarded == /\ IsDict(rules)
                       /\ \E p \in DOMAIN rules.m : EqStr(rules.m[p], "deny")
                       /\ "*" \in DOMAIN rules.m /\ EqStr(rules.m["*"], "ask")
        IN  /\ result.level # "LOW"
            /\ result.level = "MEDIUM" <=> guarded
            /\ ~guarded => result.level = "HIGH"
            /\ (rules = NoneV \/ rules = EmptyDict \/ IsStr(rules)) => result.level = "HIGH"

\* bash enabled and the bash permission the single level deny: HIGH
C23_Witness ==
    /\ RiskWithBash
    /\ EqStr(BashPermissionOf(input.permission), "deny")
    /\ result.level = "HIGH"

\* the lines that the report gives for the deprecated field in the file
ReportedLines(path, field) ==
    {issues[i].line : i \in DeprecatedFieldIssues(path, field)}

\* C24: every deprecated-field error issued for a fenced YAML block reports
\* as its line the 1-based number of the line of the file on which the field
\* name stands, also when the block starts with blank lines or the field
\* line follows a blank line inside the block.
C24_ReportedLineIsFieldLine ==
    (input.fn = "scan" /\ pc # "start" /\ input.tree.exists /\ SkillIndex(input.tree) # 0) =>
        \A i \in DOMAIN input.tree.files : \A field \in {"name", "skills", "permissions"} :
            input.tree.files[i].readable =>
                ReportedLines(input.tree.files[i].path, field)
                    = Occurrences(input.tree.files[i], field)

\* no blank line stands directly before line k of the file
NoBlankBefore(f, k) == k = 1 \/ f.lines[k - 1].k # "blank"

\* no blank line stands directly after an opening fence of the file
NoBlankAfterFence(f) ==
    \A k \in DOMAIN f.lines :
        (f.lines[k].k = "fence" /\ f.lines[k].a # "" /\ k < Len(f.lines))
            => f.lines[k + 1].k # "blank"

\* the same statement for the files in whose YAML blocks no blank line
\* follows the opening fence and no deprecated field follows a blank line
C24_ReportedLineWithoutBlanks ==
    (input.fn = "scan" /\ pc # "start" /\ input.tree.exists /\ SkillIndex(input.tree) # 0) =>
        \A i \in DOMAIN input.tree.files : \A field \in {"name", "skills", "permissions"} :
            (/\ input.tree.files[i].readable
             /\ NoBlankAfterFence(input.tree.files[i])
             /\ \A g \in {"name", "skills", "permissions"} :
                   \A k \in Occurrences(input.tree.files[i], g) :
                       NoBlankBefore(input.tree.files[i], k))
                => ReportedLines(input.tree.files[i].path, field)
                     = Occurrences(input.tree.files[i], field)

(***************************************************************************)
(* Properties of create_agent.                                             *)
(***************************************************************************)

\* the path of the last call, with the name as create_agent normalizes it
LastPath == AgentPath(result.path, NormalizedName(result.name))

\* C25: create_agent never modifies an existing document: every document
\* that is there before a call is there with the same content after it, a
\* call for a path that has a document returns False, and a call that
\* returns True wrote a path that had none.
C25_ExistingNeverModified ==
    [][(input.fn = "create") =>
          /\ \A p \in DOMAIN result.fs.files :
                p \in DOMAIN result'.fs.files /\ result'.fs.files[p] = result.fs.files[p]
          /\ AgentPath(result'.path, NormalizedName(result'.name)) \in DOMAIN result.fs.files
                => ~result'.returned
          /\ result'.returned
                => /\ AgentPath(result'.path, NormalizedName(result'.name))
                        \notin DOMAIN result.fs.files
                   /\ AgentPath(result'.path, NormalizedName(result'.name))
                        \in DOMAIN result'.fs.files]_vars

\* C25, the consequence: in every sequence of calls each path is written at
\* most once, and a document that was there at the start is never written.
C25_WrittenAtMostOnce ==
    (input.fn = "create") =>
        /\ \A p \in DOMAIN result.writes : result.writes[p] = 1
        /\ \A p \in DOMAIN result.fs.files :
              result.fs.files[p] = UserDocument => p \notin DOMAIN result.writes

\* a third call for a path that the first call wrote, under a name that
\* differs from the first but normalizes to the same: it returned False
C25_Witness ==
    /\ input.fn = "create" /\ result.calls = 3
    /\ result.name = <<"a", "_", "B">> /\ result.path = "new"
    /\ ~result.returned
    /\ LastPath \in DOMAIN result.writes
    /\ result.fs.files[LastPath].mode = "subagent"
    /\ AgentPath("agent", <<"a">>) \in DOMAIN result.fs.files
    /\ result.fs.files[AgentPath("agent", <<"a">>)] = UserDocument

====
